---- MODULE Spec2Model ----
(***************************************************************************)
(* Admission-control pipeline of the trading bot: multi-timeframe trend    *)
(* voter (analysis/mtf_analyzer.py), signal aggregator                     *)
(* (analysis/signal_aggregator.py), per-strategy cooldown                  *)
(* (core/global_strategy_cooldown.py), correlation guard                   *)
(* (core/correlation_manager.py), equity monitor (core/equity_monitor.py), *)
(* the interval providers (strategies/candlestick.py, liquidity.py) and    *)
(* the polling loop of main.py.                                            *)
(* Time is in seconds; confidences are in hundredths, lot multipliers in   *)
(* percent, volumes in 1/10000 lot.                                        *)
(***************************************************************************)
EXTENDS Integers, Sequences, FiniteSets, TLC

VARIABLES
    now,                  \* datetime.now(), seconds since the bot was constructed
    timeframes,           \* MultiTimeframeAnalyzer.timeframes
    mtf_analysis,         \* the dict returned by the last analyze_all_timeframes call
    pc,                   \* position of MLTradingBot.run in its loop iteration
    current_time,         \* run: current_time of the iteration that started the cycle
    last_signal_check,    \* run: last_signal_check
    last_mtf_update_fast, \* run: last_mtf_update_fast
    last_mtf_update_slow, \* run: last_mtf_update_slow
    all_signals,          \* run: all_signals, the list collected in this cycle
    final_signals,        \* run: final_signals, the finalists still to be handled
    positions,            \* tickets of the positions open at the broker
    cycle_positions,      \* run: positions, the snapshot taken before filtering
    active_trades,        \* MLTradingBot.active_trades: ticket -> trade info
    next_ticket,          \* the ticket the broker gives to the next order
    last_operation_time,  \* GlobalStrategyCooldown.last_operation_time
    strategies_enabled,   \* MLTradingBot.strategies_enabled and the providers' .enabled
    mtf_enabled,          \* SignalAggregator.mtf_enabled (= MLTradingBot.mtf_enabled)
    max_total_positions,  \* MLTradingBot.max_total_positions
    lot_size,             \* MLTradingBot.lot_size, in 1/10000 lot
    defensive_lot_multiplier,  \* EquityMonitor.defensive_lot_multiplier, percent
    aggressive_lot_multiplier, \* EquityMonitor.aggressive_lot_multiplier, percent
    total_signals_executed, \* SignalAggregator.total_signals_executed
    last_exec,            \* outcome of the last open_trade_from_signal call
    last_signal_time,     \* the providers' own last_signal_time (candlestick, liquidity)
    defensive_drawdown_threshold, \* EquityMonitor.defensive_drawdown_threshold, percent
    aggressive_winrate_threshold, \* EquityMonitor.aggressive_winrate_threshold, percent
    current_mode,         \* EquityMonitor.current_mode
    current_drawdown,     \* EquityMonitor.current_drawdown, percent
    current_winrate,      \* EquityMonitor.current_winrate, percent
    mode_changes,         \* EquityMonitor.stats['mode_changes']
    equity_gate,          \* run's allow_trade of the cycle and the signals it covers
    cycle_balance,        \* run's account_balance of the cycle (line 1277)
    drop_log,             \* the drop events logged in the cycle
    gui_queue,            \* the queue.Queue shared by the GUI thread and the bot thread
    order_send,           \* send_order: where its retry loop stands and what it sent
    trail                 \* a position at the broker, its trailing tracker, the last request

mtfVars == <<timeframes, mtf_analysis>>
loopVars == <<pc, current_time, last_signal_check, last_mtf_update_fast,
              last_mtf_update_slow, all_signals, final_signals, cycle_positions>>
bookVars == <<positions, active_trades, next_ticket, last_operation_time,
              total_signals_executed, last_exec>>
cfgVars == <<strategies_enabled, mtf_enabled, max_total_positions, lot_size,
             defensive_lot_multiplier, aggressive_lot_multiplier,
             defensive_drawdown_threshold, aggressive_winrate_threshold>>
provVars == <<last_signal_time>>
monVars == <<current_mode, current_drawdown, current_winrate, mode_changes>>
gateVars == <<equity_gate>>
corrVars == <<cycle_balance>>
logVars == <<drop_log>>
guiVars == <<gui_queue>>
sendVars == <<order_send>>
trailVars == <<trail>>
vars == <<now, timeframes, mtf_analysis, pc, current_time, last_signal_check,
          last_mtf_update_fast, last_mtf_update_slow, all_signals, final_signals,
          positions, cycle_positions, active_trades, next_ticket,
          last_operation_time, strategies_enabled, mtf_enabled,
          max_total_positions, total_signals_executed, last_exec,
          last_signal_time, lot_size, defensive_lot_multiplier,
          aggressive_lot_multiplier, defensive_drawdown_threshold,
          aggressive_winrate_threshold, current_mode, current_drawdown,
          current_winrate, mode_changes, equity_gate, cycle_balance, drop_log,
          gui_queue, order_send, trail>>

\* None of a datetime field (last_update, last_operation_time)
NoTime == -1

(***************************************************************************)
(* MultiTimeframeAnalyzer                                                  *)
(***************************************************************************)
TFNames == {"M15", "M30", "H1", "H4", "D1", "W1"}

update_interval ==
    [tf \in TFNames |->
        CASE tf = "M15" -> 30
          [] tf = "M30" -> 60
          [] tf = "H1"  -> 120
          [] tf = "H4"  -> 300
          [] tf = "D1"  -> 600
          [] tf = "W1"  -> 600]

\* the timeframes dict built by __init__: only M30 is active
InitTimeframes ==
    [tf \in TFNames |->
        [active |-> (tf = "M30"), bias |-> "neutral", strength |-> 0,
         last_update |-> NoTime]]

\* what copy_rates_from_pos gives for one timeframe: no data (None, or fewer
\* than 50 bars), or bars whose indicators add up to a total_score (hundredths)
NoData == [ok |-> FALSE, score |-> 0]
BiasThreshold == 5
ScoreChoices == {-20, 5, 20}
FetchOutcomes == {NoData} \cup {[ok |-> TRUE, score |-> s] : s \in ScoreChoices}

Abs(x) == IF x < 0 THEN -x ELSE x
Min(a, b) == IF a <= b THEN a ELSE b
Max(a, b) == IF a >= b THEN a ELSE b

\* lines 285-293: bias and strength from total_score
BiasOfScore(score) ==
    IF score > BiasThreshold THEN "bullish"
    ELSE IF score < -BiasThreshold THEN "bearish"
    ELSE "neutral"

StrengthOfScore(score) ==
    IF score > BiasThreshold \/ score < -BiasThreshold
    THEN Min(Abs(score), 100) ELSE Abs(score)

get_active_timeframes(tfs) == {tf \in TFNames : tfs[tf].active}

\* lines 207-208: the cached bias is still valid
CacheValid(cfg, tf, t) ==
    cfg.last_update # NoTime /\ t - cfg.last_update < update_interval[tf]

\* what analyze_single_timeframe returns for tf at time t when the data
\* source answers d ("kind" tells the three return statements apart)
SingleResultFailOpen(tfs, tf, t, d) ==
    IF CacheValid(tfs[tf], tf, t) \/ ~d.ok
    THEN [bias |-> tfs[tf].bias, strength |-> tfs[tf].strength,
          kind |-> IF CacheValid(tfs[tf], tf, t) THEN "cached" ELSE "error"]
    ELSE [bias |-> BiasOfScore(d.score), strength |-> StrengthOfScore(d.score), kind |-> "fresh"]

SingleResult(tfs, tf, t, d) ==
    IF CacheValid(tfs[tf], tf, t)
    THEN [bias |-> tfs[tf].bias, strength |-> tfs[tf].strength, kind |-> "cached"]
    ELSE IF ~d.ok
    THEN [bias |-> "neutral", strength |-> 0, kind |-> "error"]
    ELSE [bias |-> BiasOfScore(d.score), strength |-> StrengthOfScore(d.score), kind |-> "fresh"]

\* the timeframe's config after analyze_single_timeframe: written only on a
\* successful fresh analysis (lines 295-298)
SingleUpdateCachingFailure(tfs, tf, t, d) ==
    IF CacheValid(tfs[tf], tf, t) THEN tfs[tf]
    ELSE IF ~d.ok
    THEN [tfs[tf] EXCEPT !.bias = "neutral", !.strength = 0, !.last_update = t]
    ELSE [tfs[tf] EXCEPT !.bias = BiasOfScore(d.score),
                         !.strength = StrengthOfScore(d.score),
                         !.last_update = t]

SingleUpdate(tfs, tf, t, d) ==
    IF CacheValid(tfs[tf], tf, t) \/ ~d.ok
    THEN tfs[tf]
    ELSE [tfs[tf] EXCEPT !.bias = BiasOfScore(d.score),
                         !.strength = StrengthOfScore(d.score),
                         !.last_update = t]

\* lines 332-390: the verdict over the results of the active timeframes
VerdictNoEmptyCheck(active, results) ==
    LET all_bullish == \A tf \in active : results[tf].bias = "bullish"
        all_bearish == \A tf \in active : results[tf].bias = "bearish"
    IN  [approved |-> all_bullish \/ all_bearish,
         direction |-> IF all_bullish THEN "buy"
                       ELSE IF all_bearish THEN "sell" ELSE "none",
         active_timeframes |-> active,
         timeframes_detail |-> results,
         called |-> TRUE]

Verdict(active, results) ==
    IF active = {}
    THEN [approved |-> FALSE, direction |-> "none", active_timeframes |-> {},
          timeframes_detail |-> results, called |-> TRUE]
    ELSE LET all_bullish == \A tf \in active : results[tf].bias = "bullish"
             all_bearish == \A tf \in active : results[tf].bias = "bearish"
         IN  [approved |-> all_bullish \/ all_bearish,
              direction |-> IF all_bullish THEN "buy"
                            ELSE IF all_bearish THEN "sell" ELSE "none",
              active_timeframes |-> active,
              timeframes_detail |-> results,
              called |-> TRUE]

\* analyze_all_timeframes at time t, data[tf] being the data source's answer
\* for each active timeframe: the returned dict and the cache afterwards
analyze_all_timeframes(tfs, t, data) ==
    LET active == get_active_timeframes(tfs)
        results == [tf \in active |-> SingleResult(tfs, tf, t, data[tf])]
    IN  Verdict(active, results)

TimeframesAfterAnalysis(tfs, t, data) ==
    [tf \in TFNames |->
        IF tfs[tf].active THEN SingleUpdate(tfs, tf, t, data[tf]) ELSE tfs[tf]]

\* update_active_timeframes(active_tf_list): clear every cache, activate the
\* known names of the list
update_active_timeframes_keeping_cache(tfs, active_tf_list) ==
    [tf \in TFNames |->
        [tfs[tf] EXCEPT
           !.active = (\E i \in 1..Len(active_tf_list) : active_tf_list[i] = tf)]]

update_active_timeframes(tfs, active_tf_list) ==
    [tf \in TFNames |->
        [active |-> (\E i \in 1..Len(active_tf_list) : active_tf_list[i] = tf),
         bias |-> "neutral", strength |-> 0, last_update |-> NoTime]]

NoAnalysis ==
    [approved |-> FALSE, direction |-> "none", active_timeframes |-> {},
     timeframes_detail |-> <<>>, called |-> FALSE]

(***************************************************************************)
(* Configuration tables                                                    *)
(***************************************************************************)
Strategies == {"ml", "sr", "fibo", "price_action", "candlestick", "liquidity"}

\* the order in which collect_all_signals queries the providers
ProviderOrder == <<"ml", "sr", "fibo", "price_action", "candlestick", "liquidity">>

\* 'priority' given to each source by collect_all_signals
priority ==
    [s \in Strategies |->
        CASE s = "ml" -> 1 [] s = "sr" -> 2 [] s = "fibo" -> 2
          [] s = "price_action" -> 3 [] s = "candlestick" -> 2
          [] s = "liquidity" -> 1]

\* QUALITY_FILTERS[s]['min_confidence'], hundredths
min_confidence ==
    [s \in Strategies |->
        CASE s = "ml" -> 70 [] s = "sr" -> 65 [] s = "fibo" -> 60
          [] s = "price_action" -> 65 [] s = "candlestick" -> 65
          [] s = "liquidity" -> 75]

MAX_POSITIONS_PER_STRATEGY ==
    [s \in Strategies |->
        CASE s = "ml" -> 2 [] s = "sr" -> 2 [] s = "fibo" -> 2
          [] s = "price_action" -> 2 [] s = "candlestick" -> 1
          [] s = "liquidity" -> 3]

\* max_positions_per_strategy.get(strategy, 2)
DefaultMaxPerStrategy == 2

\* GlobalStrategyCooldown.strategy_cooldowns, minutes
strategy_cooldowns ==
    [s \in Strategies |->
        CASE s = "ml" -> 15 [] s = "sr" -> 20 [] s = "fibo" -> 30
          [] s = "price_action" -> 20 [] s = "candlestick" -> 60
          [] s = "liquidity" -> 30]

signal_timeout_minutes == 2
DEFAULT_MAX_POSITIONS == 10
PollSeconds == 30
MtfFastSeconds == 60
MtfSlowSeconds == 300

\* sl_pips of the signal each provider returns (liquidity: its top branch;
\* price action: its confluence branch)
ProviderSlPips ==
    [s \in Strategies |->
        CASE s = "ml" -> 70 [] s = "sr" -> 35 [] s = "fibo" -> 40
          [] s = "price_action" -> 35 [] s = "candlestick" -> 40
          [] s = "liquidity" -> 45]

(***************************************************************************)
(* Signal providers (external): what get_signal / predict_with_active_model *)
(* answers on one call                                                     *)
(***************************************************************************)
NoSignal == [some |-> FALSE, signal |-> 0, confidence |-> 0]
ProviderConf == {64, 80}
ProviderOutputs ==
    {NoSignal} \cup
    {[some |-> TRUE, signal |-> d, confidence |-> c] : d \in {1, -1}, c \in ProviderConf}

\* Providers that keep a minimum interval between two signals of their own:
\* CandlestickPatternSystem.cooldown_minutes, LiquiditySystem.min_signal_interval_minutes
IntervalProviders == {"candlestick", "liquidity"}
min_signal_interval_minutes == [candlestick |-> 60, liquidity |-> 15]
InitLastSignalTime == [s \in IntervalProviders |-> NoTime]

\* is_in_cooldown / the interval test at the head of get_signal
in_signal_interval(s, lst, t) ==
    /\ s \in IntervalProviders
    /\ lst[s] # NoTime
    /\ t - lst[s] < min_signal_interval_minutes[s] * 60

\* get_signal of provider s at time t, "pattern" being what its detection
\* finds on the market snapshot: the interval providers answer None while
\* their interval runs, the others answer what they detect
get_signal(s, pattern, lst, t) ==
    IF in_signal_interval(s, lst, t) THEN NoSignal ELSE pattern

\* register_signal_generated / self.last_signal_time = now: an interval
\* provider stamps its clock whenever it returns a signal
stamp_signal_time(lst, s, answer, t) ==
    IF s \in IntervalProviders /\ answer.some THEN [lst EXCEPT ![s] = t] ELSE lst

\* the answers of one collect_all_signals pass and the clocks it leaves
Queried(s, en) == s = "ml" \/ en[s]
CollectAnswers(patterns, lst, t, en) ==
    [s \in Strategies |->
        IF Queried(s, en) THEN get_signal(s, patterns[s], lst, t) ELSE NoSignal]
LastSignalTimeAfterCollect(patterns, lst, t, en) ==
    [s \in IntervalProviders |->
        IF Queried(s, en) /\ get_signal(s, patterns[s], lst, t).some THEN t ELSE lst[s]]

(***************************************************************************)
(* MLSignalValidator.validate_signal                                       *)
(***************************************************************************)
confidence_boost == 12
confidence_penalty == 25
high_uncertainty_penalty == 10
\* boost_amount * (1 - uncertainty * 0.5) for an uncertainty in (0.6, 0.75]
ReducedBoost == 8
ConfidenceCap == 95
ConfidenceFloor == 25

\* vmode: "neutral" (validator disabled, uncertainty too high, calibrated
\* confidence too low, or an exception), "sure" (uncertainty <= 0.6),
\* "unsure" (0.6 < uncertainty <= 0.75); ml_pred is the model's prediction
validate_signal(sig, ml_pred, vmode) ==
    IF sig.strategy = "ml" \/ vmode = "neutral" THEN sig
    ELSE IF ml_pred = sig.signal
    THEN [sig EXCEPT !.confidence =
            Min(@ + (IF vmode = "sure" THEN confidence_boost ELSE ReducedBoost),
                ConfidenceCap)]
    ELSE [sig EXCEPT !.confidence =
            Max(@ - (IF vmode = "sure" THEN confidence_penalty
                     ELSE confidence_penalty + high_uncertainty_penalty),
                ConfidenceFloor)]

batch_validate_signals(sigs, ml_pred, vmode) ==
    [i \in 1..Len(sigs) |-> validate_signal(sigs[i], ml_pred, vmode)]

(***************************************************************************)
(* EquityMonitor: metrics are what calculate_current_metrics computes from *)
(* the closed trades of the memory, in percent; a monitor is the record of *)
(* the fields determine_trading_mode reads and writes                      *)
(***************************************************************************)
InitDefensiveDrawdownThreshold == 80
InitAggressiveWinrateThreshold == 70
AggressiveDrawdownLimit == 5
NoTradesMetrics == [drawdown_pct |-> 0, winrate |-> 0]

\* lines 126-136: the mode the metrics give
mode_of_metrics_sticky(prev, metrics, dd_threshold, wr_threshold) ==
    IF metrics.drawdown_pct >= dd_threshold THEN "defensive"
    ELSE IF prev = "defensive" THEN "defensive"
    ELSE IF metrics.winrate >= wr_threshold /\ metrics.drawdown_pct < AggressiveDrawdownLimit
    THEN "aggressive"
    ELSE "normal"

mode_of_metrics(prev, metrics, dd_threshold, wr_threshold) ==
    IF metrics.drawdown_pct >= dd_threshold THEN "defensive"
    ELSE IF metrics.winrate >= wr_threshold /\ metrics.drawdown_pct < AggressiveDrawdownLimit
    THEN "aggressive"
    ELSE "normal"

\* lines 139-140: the change is counted when the mode differs from the stored one
counts_change_always(old_mode, new_mode) == TRUE

counts_change(old_mode, new_mode) == old_mode # new_mode

\* determine_trading_mode on monitor mon; the returned mode is .current_mode
determine_trading_mode(mon, metrics, dd_threshold, wr_threshold) ==
    LET mode == mode_of_metrics(mon.current_mode, metrics, dd_threshold, wr_threshold)
    IN  [current_mode |-> mode,
         current_drawdown |-> metrics.drawdown_pct,
         current_winrate |-> metrics.winrate,
         mode_changes |-> IF counts_change(mon.current_mode, mode)
                          THEN mon.mode_changes + 1 ELSE mon.mode_changes]

\* should_allow_trade: the boolean of the returned tuple
should_allow_trade_unless_defensive(mode) == mode # "defensive"

should_allow_trade(mode) == TRUE

defensive_confidence_boost == 5
aggressive_confidence_reduction == 5

get_confidence_adjustment(mode) ==
    IF mode = "defensive" THEN defensive_confidence_boost
    ELSE IF mode = "aggressive" THEN -aggressive_confidence_reduction
    ELSE 0

\* what run holds of the equity gate in a cycle: allow_trade (line 1207) and
\* the source and direction of the signals the adjustment was given (line 1229)
NoGate == [called |-> FALSE, allow_trade |-> FALSE, offered |-> <<>>]
SourceAndDirection(sigs) ==
    [i \in 1..Len(sigs) |-> <<sigs[i].strategy, sigs[i].signal>>]

\* the monitor as it stands, and the assignment of a monitor to the fields
Monitor ==
    [current_mode |-> current_mode, current_drawdown |-> current_drawdown,
     current_winrate |-> current_winrate, mode_changes |-> mode_changes]

SetMonitor(mon) ==
    /\ current_mode' = mon.current_mode
    /\ current_drawdown' = mon.current_drawdown
    /\ current_winrate' = mon.current_winrate
    /\ mode_changes' = mon.mode_changes

Determine(mon, metrics) ==
    determine_trading_mode(mon, metrics, defensive_drawdown_threshold,
                           aggressive_winrate_threshold)

\* run, lines 1206-1231: should_allow_trade, get_confidence_adjustment and, when
\* the adjustment is not zero, determine_trading_mode, on the same closed trades
MonitorAfterCollect(mon, metrics) ==
    LET allowed == Determine(mon, metrics)
        adjusted == Determine(allowed, metrics)
    IN  IF get_confidence_adjustment(adjusted.current_mode) # 0
        THEN Determine(adjusted, metrics) ELSE adjusted

\* send_order, lines 571-575: get_lot_multiplier and, when the multiplier is
\* not 1.0, determine_trading_mode
MonitorAfterSendOrder(mon, metrics, lot_multiplier) ==
    LET sized == Determine(mon, metrics)
    IN  IF lot_multiplier # 100 THEN Determine(sized, metrics) ELSE sized

\* lot multipliers are percentages, update_config's None is NoValue
InitDefensiveLotMultiplier == 100
InitAggressiveLotMultiplier == 120
defensive_lot_floor == 50
NoValue == -1

get_lot_multiplier(mode, defensive_mult, aggressive_mult) ==
    IF mode = "defensive" THEN defensive_mult
    ELSE IF mode = "aggressive" THEN aggressive_mult
    ELSE 100

\* update_config, line 275: the value stored for defensive_lot_mult
stored_defensive_unclamped(defensive_lot_mult) == defensive_lot_mult

stored_defensive_lot_mult(defensive_lot_mult) ==
    IF defensive_lot_mult >= defensive_lot_floor THEN defensive_lot_mult
    ELSE defensive_lot_floor

(***************************************************************************)
(* send_order PASO 2 and OrderValidator.validate_volume; volumes are in    *)
(* 1/10000 lot, volume_min and volume_max are the broker's symbol limits   *)
(***************************************************************************)
DEFAULT_LOT_SIZE == 200
volume_min == 100
volume_max == 1000000

adjusted_volume(volume, lot_multiplier) == (volume * lot_multiplier) \div 100

validate_volume(volume) == volume >= volume_min /\ volume <= volume_max

\* "equity_mode" is the history of the mode the signal was adjusted in
adjust_confidence(sigs, mode) ==
    [i \in 1..Len(sigs) |->
        [sigs[i] EXCEPT
            !.confidence =
                Max(ConfidenceFloor, Min(@ + get_confidence_adjustment(mode), ConfidenceCap)),
            !.equity_mode = mode]]

(***************************************************************************)
(* GlobalStrategyCooldown                                                  *)
(***************************************************************************)
InitLastOperationTime == [s \in Strategies |-> NoTime]

\* can_operate(strategy) at time t: the boolean of the returned tuple
can_operate_strict(last, strategy, t) ==
    \/ strategy \notin DOMAIN strategy_cooldowns
    \/ last[strategy] = NoTime
    \/ t - last[strategy] > 0

\* a gate that still blocks when the elapsed time equals the cooldown
can_operate_past_boundary(last, strategy, t) ==
    \/ strategy \notin DOMAIN strategy_cooldowns
    \/ last[strategy] = NoTime
    \/ t - last[strategy] > strategy_cooldowns[strategy] * 60

can_operate(last, strategy, t) ==
    \/ strategy \notin DOMAIN strategy_cooldowns
    \/ last[strategy] = NoTime
    \/ t - last[strategy] >= strategy_cooldowns[strategy] * 60

\* register_operation(strategy) at time t
register_operation_toggle(last, strategy, t) ==
    IF strategy \notin DOMAIN last THEN last
    ELSE [last EXCEPT ![strategy] = IF @ = NoTime THEN t ELSE NoTime]

register_operation(last, strategy, t) ==
    IF strategy \notin DOMAIN last THEN last
    ELSE [last EXCEPT ![strategy] = t]

(***************************************************************************)
(* SignalAggregator                                                        *)
(***************************************************************************)
\* "gates" is the history of the stages a signal went through in its cycle
\* a collection in which every source after the first reads the clock itself
MakeSignalOwnClock(s, out, t, current_price) ==
    [strategy |-> s, signal |-> out.signal, confidence |-> out.confidence,
     provider_confidence |-> out.confidence, equity_mode |-> "none",
     priority |-> priority[s], sl_pips |-> ProviderSlPips[s],
     timestamp |-> IF s = "ml" THEN t ELSE t + 1,
     generation_price |-> current_price,
     mtf_status |-> "none", gates |-> <<"collected">>]

MakeSignal(s, out, t, current_price) ==
    [strategy |-> s, signal |-> out.signal, confidence |-> out.confidence,
     provider_confidence |-> out.confidence, equity_mode |-> "none",
     priority |-> priority[s], sl_pips |-> ProviderSlPips[s], timestamp |-> t,
     generation_price |-> current_price,
     mtf_status |-> "none", gates |-> <<"collected">>]

Mark(sig, g) == [sig EXCEPT !.gates = Append(@, g)]
MarkAll(sigs, g) == [i \in 1..Len(sigs) |-> Mark(sigs[i], g)]

\* collect_all_signals: one query per provider, in ProviderOrder; the ML model
\* is queried whatever strategies_enabled['ml'] says
RECURSIVE CollectFrom(_, _, _, _, _)
CollectFrom(i, outs, t, en, current_price) ==
    IF i > Len(ProviderOrder) THEN <<>>
    ELSE LET s == ProviderOrder[i]
             rest == CollectFrom(i + 1, outs, t, en, current_price)
         IN  IF /\ (s = "ml" \/ en[s])
                /\ outs[s].some
                /\ outs[s].confidence >= min_confidence[s]
             THEN <<MakeSignal(s, outs[s], t, current_price)>> \o rest
             ELSE rest

collect_all_signals(outs, t, en, current_price) ==
    CollectFrom(1, outs, t, en, current_price)

\* is_signal_expired at time t
is_signal_expired_at_limit(sig, t) ==
    \/ sig.timestamp = NoTime
    \/ t - sig.timestamp >= signal_timeout_minutes * 60

is_signal_expired(sig, t) ==
    \/ sig.timestamp = NoTime
    \/ t - sig.timestamp > signal_timeout_minutes * 60

\* FILTRO 1
AfterExpiry(sigs, t) ==
    MarkAll(SelectSeq(sigs, LAMBDA x : ~is_signal_expired(x, t)), "fresh")

\* FILTRO 2
AfterCooldown(sigs, last, t) ==
    MarkAll(SelectSeq(sigs, LAMBDA x : can_operate(last, x.strategy, t)), "cooldown")

\* block_operation(strategy, reason): only stats[strategy]['blocked'] changes
block_operation(last, strategy) == last

\* last_operation_time after the FILTRO 2 loop: can_operate for every signal,
\* block_operation for the blocked ones
RECURSIVE CooldownRecordStampedAtFilter(_, _, _)
RECURSIVE CooldownRecordAfterFilter(_, _, _)
CooldownRecordStampedAtFilter(last, sigs, t) ==
    IF sigs = <<>> THEN last
    ELSE CooldownRecordStampedAtFilter(
             IF can_operate(last, Head(sigs).strategy, t)
             THEN register_operation(last, Head(sigs).strategy, t)
             ELSE last,
             Tail(sigs), t)

CooldownRecordAfterFilter(last, sigs, t) ==
    IF sigs = <<>> THEN last
    ELSE CooldownRecordAfterFilter(
             IF can_operate(last, Head(sigs).strategy, t)
             THEN last
             ELSE block_operation(last, Head(sigs).strategy),
             Tail(sigs), t)

\* FILTRO 3, lines 421-450: the signal is kept by the verdict
MtfAlignedAny(sig, analysis) == TRUE

MtfAligned(sig, analysis) ==
    /\ analysis.approved
    /\ analysis.direction # "none"
    /\ \/ analysis.direction = "buy" /\ sig.signal = 1
       \/ analysis.direction = "sell" /\ sig.signal = -1

AfterMtf(sigs, analysis) ==
    LET kept == SelectSeq(sigs, LAMBDA x : MtfAligned(x, analysis))
    IN  [i \in 1..Len(kept) |->
            Mark([kept[i] EXCEPT !.mtf_status = "approved"], "mtf")]

active_count(trades, strategy) ==
    Cardinality({k \in DOMAIN trades : trades[k].strategy = strategy})

max_allowed(strategy) ==
    IF strategy \in DOMAIN MAX_POSITIONS_PER_STRATEGY
    THEN MAX_POSITIONS_PER_STRATEGY[strategy] ELSE DefaultMaxPerStrategy

\* lines 489-490 / 507-508: the signal is appended to final_signals
LimitAdmitsLoose(sig, n_final, trades, total_open, max_total) ==
    /\ active_count(trades, sig.strategy) <= max_allowed(sig.strategy)
    /\ total_open + n_final < max_total

LimitAdmits(sig, n_final, trades, total_open, max_total) ==
    /\ active_count(trades, sig.strategy) < max_allowed(sig.strategy)
    /\ total_open + n_final < max_total

\* the two loops of FILTRO 4 over buy_signals then sell_signals
RECURSIVE LimitLoop(_, _, _, _, _)
LimitLoop(sigs, acc, trades, total_open, max_total) ==
    IF sigs = <<>> THEN acc
    ELSE LimitLoop(Tail(sigs),
                   IF LimitAdmits(Head(sigs), Len(acc), trades, total_open, max_total)
                   THEN Append(acc, Head(sigs)) ELSE acc,
                   trades, total_open, max_total)

\* sort key (priority, -confidence): a goes strictly before b
Before(a, b) ==
    \/ a.priority < b.priority
    \/ a.priority = b.priority /\ a.confidence > b.confidence

RECURSIVE InsertSorted(_, _)
InsertSorted(x, sorted) ==
    IF sorted = <<>> THEN <<x>>
    ELSE IF Before(x, Head(sorted)) THEN <<x>> \o sorted
    ELSE <<Head(sorted)>> \o InsertSorted(x, Tail(sorted))

\* list.sort is stable
RECURSIVE SortSignals(_)
SortSignals(q) ==
    IF q = <<>> THEN <<>>
    ELSE InsertSorted(q[Len(q)], SortSignals(SubSeq(q, 1, Len(q) - 1)))

\* FILTRO 4, lines 470-520
AfterLimitsNoTruncation(sigs, total_open, trades, max_total) ==
    MarkAll(SortSignals(sigs), "limit")

AfterLimits(sigs, total_open, trades, max_total) ==
    IF total_open >= max_total THEN <<>>
    ELSE LET buy_signals == SelectSeq(sigs, LAMBDA x : x.signal = 1)
             sell_signals == SelectSeq(sigs, LAMBDA x : x.signal = -1)
             chosen == LimitLoop(buy_signals \o sell_signals, <<>>, trades,
                                 total_open, max_total)
             sorted == SortSignals(chosen)
             available_slots == max_total - total_open
         IN  MarkAll(SubSeq(sorted, 1, Min(Len(sorted), available_slots)), "limit")

\* the MTF analysis is run by filter_and_prioritize (line 412) only when the
\* filter is on and a signal survived the first two filters
MtfConsulted(sigs, t, last, mtf_on) ==
    mtf_on /\ AfterCooldown(AfterExpiry(sigs, t), last, t) # <<>>

GateMtf(sigs, mtf_on, analysis) ==
    IF mtf_on THEN AfterMtf(sigs, analysis) ELSE sigs

\* what a drop writes to the log: the source, the direction and the reason
drop_event_without_direction(sig, reason) ==
    [strategy |-> sig.strategy, signal |-> 0, reason |-> reason]

drop_event(sig, reason) ==
    [strategy |-> sig.strategy, signal |-> sig.signal, reason |-> reason]

\* the log lines of FILTRO 1 (line 358), FILTRO 2 (392) and FILTRO 3 (455-457)
FilterDropEvents(sigs, t, last, mtf_on, analysis) ==
    LET fresh == SelectSeq(sigs, LAMBDA x : ~is_signal_expired(x, t))
        ready == SelectSeq(fresh, LAMBDA x : can_operate(last, x.strategy, t))
    IN  {drop_event(sigs[i], "expired") :
            i \in {k \in 1..Len(sigs) : is_signal_expired(sigs[k], t)}}
        \cup {drop_event(fresh[i], "cooldown") :
                i \in {k \in 1..Len(fresh) : ~can_operate(last, fresh[k].strategy, t)}}
        \cup IF mtf_on
             THEN {drop_event(ready[i], "mtf") :
                     i \in {k \in 1..Len(ready) : ~MtfAligned(ready[k], analysis)}}
             ELSE {}

\* filter_and_prioritize(signals, current_positions, active_trades_dict,
\* max_total_positions) at time t; analysis is what analyze_all_timeframes
\* returns if it is consulted
filter_limits_first(sigs, total_open, trades, max_total, t, last, mtf_on, analysis) ==
    LET s2 == AfterCooldown(AfterLimits(AfterExpiry(sigs, t), total_open, trades, max_total),
                            last, t)
    IN  IF s2 = <<>> THEN <<>> ELSE GateMtf(s2, mtf_on, analysis)

filter_and_prioritize(sigs, total_open, trades, max_total, t, last, mtf_on, analysis) ==
    LET s2 == AfterCooldown(AfterExpiry(sigs, t), last, t)
    IN  IF s2 = <<>> THEN <<>>
        ELSE AfterLimits(GateMtf(s2, mtf_on, analysis), total_open, trades, max_total)

\* revalidate_signal(signal, ...): out is what the originating provider
\* answers when queried again; the boolean of the returned tuple
revalidate_signal_no_direction(sig, out) == out.some

\* a revalidation that treats an unknown source like a pattern source
revalidate_signal_any_source(sig, out) ==
    IF sig.strategy = "ml"
    THEN out.signal = sig.signal /\ out.confidence >= min_confidence["ml"]
    ELSE out.some /\ out.signal = sig.signal

revalidate_signal(sig, out) ==
    IF sig.strategy = "ml"
    THEN /\ out.signal = sig.signal
         /\ out.confidence >= min_confidence["ml"]
    ELSE IF sig.strategy \in {"sr", "fibo", "price_action", "candlestick", "liquidity"}
    THEN out.some /\ out.signal = sig.signal
    ELSE FALSE

\* the snapshot shows at revalidation what the provider found at collection
SamePattern(sig, pattern) ==
    /\ pattern.some
    /\ pattern.signal = sig.signal
    /\ pattern.confidence = sig.provider_confidence

(***************************************************************************)
(* CorrelationManager                                                      *)
(***************************************************************************)
min_sl_distance_pips == 30
max_total_risk_pct == 6

RECURSIVE SumSlPips(_, _)
SumSlPips(trades, keys) ==
    IF keys = {} THEN 0
    ELSE LET k == CHOOSE x \in keys : TRUE
         IN  trades[k].sl_pips + SumSlPips(trades, keys \ {k})

\* lines 86-95: registered trades in the signal's direction whose sl_pips
\* differ from the signal's by less than min_sl_distance_pips
CloseSlCount(sig, trades) ==
    Cardinality({k \in DOMAIN trades :
        /\ trades[k].signal = sig.signal
        /\ Abs(sig.sl_pips - trades[k].sl_pips) < min_sl_distance_pips})

\* a guard that refuses the second position of a cluster
check_signal_correlation_at_one(sig, n_positions, trades, account_balance) ==
    LET total_risk == SumSlPips(trades, DOMAIN trades) + sig.sl_pips
    IN  /\ ~(n_positions > 0 /\ CloseSlCount(sig, trades) >= 1)
        /\ ~(account_balance > 0 /\ total_risk * 100 > max_total_risk_pct * account_balance)

\* check_signal_correlation(new_signal, active_positions, active_trades_dict,
\* account_balance): the boolean of the returned tuple
check_signal_correlation(sig, n_positions, trades, account_balance) ==
    LET close_sl_count == CloseSlCount(sig, trades)
        total_risk == SumSlPips(trades, DOMAIN trades) + sig.sl_pips
    IN  /\ ~(n_positions > 0 /\ close_sl_count >= 2)
        /\ ~(account_balance > 0 /\ total_risk * 100 > max_total_risk_pct * account_balance)

(***************************************************************************)
(* Initial state: the objects as their constructors leave them, run() at   *)
(* the top of its first loop iteration                                     *)
(***************************************************************************)
NoExec ==
    [called |-> FALSE, strategy |-> "none", signal |-> 0, gates |-> <<>>,
     requery |-> NoSignal, same_snapshot |-> FALSE, valid |-> FALSE,
     mode |-> "none", volume_ok |-> FALSE,
     sent |-> FALSE, done |-> FALSE, registered |-> FALSE, recorded |-> FALSE]

\* the last SL/TP request of the trailing system: none sent
NoModification ==
    [sent |-> FALSE, by |-> "none", old_sl |-> 0, requested_sl |-> 0, new_sl |-> 0,
     done |-> FALSE]

\* no position at the broker
NoPosition ==
    [open |-> FALSE, type |-> 0, price_open |-> 0, sl |-> 0,
     tracking |-> FALSE, highest_profit |-> 0, highest_profit_price |-> 0,
     breakeven |-> FALSE, last_mod |-> NoModification]

\* send_order has not been called
NoOrder ==
    [phase |-> "idle", attempt |-> 0, fill |-> 0, modes |-> <<>>, requests |-> 0,
     done_seen |-> FALSE, result |-> "none"]

Init ==
    /\ now = 0
    /\ timeframes = InitTimeframes
    /\ mtf_analysis = NoAnalysis
    /\ pc = "top"
    /\ current_time = 0
    /\ last_signal_check = 0
    /\ last_mtf_update_fast = 0
    /\ last_mtf_update_slow = 0
    /\ all_signals = <<>>
    /\ final_signals = <<>>
    /\ positions = {}
    /\ cycle_positions = 0
    /\ active_trades = <<>>
    /\ next_ticket = 1
    /\ last_operation_time = InitLastOperationTime
    /\ strategies_enabled = [s \in Strategies |-> TRUE]
    /\ mtf_enabled = TRUE
    /\ max_total_positions = DEFAULT_MAX_POSITIONS
    /\ lot_size = DEFAULT_LOT_SIZE
    /\ defensive_lot_multiplier = InitDefensiveLotMultiplier
    /\ aggressive_lot_multiplier = InitAggressiveLotMultiplier
    /\ defensive_drawdown_threshold = InitDefensiveDrawdownThreshold
    /\ aggressive_winrate_threshold = InitAggressiveWinrateThreshold
    /\ current_mode = "normal"
    /\ current_drawdown = 0
    /\ current_winrate = 0
    /\ mode_changes = 0
    /\ equity_gate = NoGate
    /\ cycle_balance = NoValue
    /\ drop_log = {}
    /\ gui_queue = <<>>
    /\ order_send = NoOrder
    /\ trail = NoPosition
    /\ total_signals_executed = 0
    /\ last_exec = NoExec
    /\ last_signal_time = InitLastSignalTime

(***************************************************************************)
(* Actions                                                                 *)
(***************************************************************************)
\* the clock advances by d seconds, up to the horizon max
Tick(d, max) ==
    /\ now + d <= max
    /\ now' = now + d

\* a caller asks the trend voter for its consensus
AnalyzeAllTimeframes(data) ==
    /\ mtf_analysis' = analyze_all_timeframes(timeframes, now, data)
    /\ timeframes' = TimeframesAfterAnalysis(timeframes, now, data)

\* the operator selects the active timeframes
UpdateActiveTimeframes(active_tf_list) ==
    /\ timeframes' = update_active_timeframes(timeframes, active_tf_list)
    /\ UNCHANGED mtf_analysis

\* run, lines 1160-1176: the loop drops the cache stamps on its own timers
MtfFastDue == mtf_enabled /\ now - last_mtf_update_fast >= MtfFastSeconds
MtfSlowDue == mtf_enabled /\ now - last_mtf_update_slow >= MtfSlowSeconds

RunLoopMtfRefresh ==
    /\ pc = "top"
    /\ MtfFastDue \/ MtfSlowDue
    /\ timeframes' =
         [tf \in TFNames |->
            IF \/ MtfFastDue /\ tf \in {"M30", "H1"}
               \/ MtfSlowDue /\ tf \in {"H4", "D1", "W1"}
            THEN [timeframes[tf] EXCEPT !.last_update = NoTime]
            ELSE timeframes[tf]]
    /\ last_mtf_update_fast' = IF MtfFastDue THEN now ELSE last_mtf_update_fast
    /\ last_mtf_update_slow' = IF MtfSlowDue THEN now ELSE last_mtf_update_slow
    /\ UNCHANGED <<now, mtf_analysis, pc, current_time, last_signal_check,
                   all_signals, final_signals, cycle_positions>>
    /\ UNCHANGED bookVars
    /\ UNCHANGED cfgVars
    /\ UNCHANGED provVars
    /\ UNCHANGED monVars
    /\ UNCHANGED gateVars
    /\ UNCHANGED corrVars
    /\ UNCHANGED logVars
    /\ UNCHANGED guiVars /\ UNCHANGED sendVars /\ UNCHANGED trailVars

\* run, 'config' message: update_config(..., lot_size, max_positions)
UpdateConfig(new_lot_size, max_positions) ==
    /\ pc = "top"
    /\ lot_size' = new_lot_size
    /\ max_total_positions' = max_positions
    /\ UNCHANGED <<now, strategies_enabled, mtf_enabled, defensive_lot_multiplier,
                   aggressive_lot_multiplier, defensive_drawdown_threshold,
                   aggressive_winrate_threshold>>
    /\ UNCHANGED mtfVars
    /\ UNCHANGED loopVars
    /\ UNCHANGED bookVars
    /\ UNCHANGED provVars
    /\ UNCHANGED monVars
    /\ UNCHANGED gateVars
    /\ UNCHANGED corrVars
    /\ UNCHANGED logVars
    /\ UNCHANGED guiVars /\ UNCHANGED sendVars /\ UNCHANGED trailVars

\* run, 'strategy_config' message: update_strategy_config(config)
UpdateStrategyConfig(config) ==
    /\ pc = "top"
    /\ strategies_enabled' = [s \in Strategies |-> config.enabled[s]]
    /\ mtf_enabled' = config.mtf_enabled
    /\ UNCHANGED <<now, max_total_positions, lot_size, defensive_lot_multiplier,
                   aggressive_lot_multiplier, defensive_drawdown_threshold,
                   aggressive_winrate_threshold>>
    /\ UNCHANGED mtfVars
    /\ UNCHANGED loopVars
    /\ UNCHANGED bookVars
    /\ UNCHANGED provVars
    /\ UNCHANGED monVars
    /\ UNCHANGED gateVars
    /\ UNCHANGED corrVars
    /\ UNCHANGED logVars
    /\ UNCHANGED guiVars /\ UNCHANGED sendVars /\ UNCHANGED trailVars

\* a message of the shared queue: the operator's 'config' and 'strategy_config'
\* and the types run does not handle
NoFlags == [s \in Strategies |-> TRUE]
ConfigMessage(new_lot_size, max_positions) ==
    [type |-> "config", lot_size |-> new_lot_size, max_positions |-> max_positions,
     enabled |-> NoFlags, mtf_enabled |-> TRUE]
StrategyConfigMessage(config) ==
    [type |-> "strategy_config", lot_size |-> 0, max_positions |-> 0,
     enabled |-> config.enabled, mtf_enabled |-> config.mtf_enabled]
OtherMessage(type) ==
    [type |-> type, lot_size |-> 0, max_positions |-> 0,
     enabled |-> NoFlags, mtf_enabled |-> TRUE]

\* the operator's settings the gates of a cycle read
OperatorConfig ==
    [strategies_enabled |-> strategies_enabled, mtf_enabled |-> mtf_enabled,
     max_total_positions |-> max_total_positions, lot_size |-> lot_size]

\* run, lines 1133-1147: the dispatch on msg_type
apply_message(cfg, msg) ==
    IF msg.type = "config"
    THEN [cfg EXCEPT !.lot_size = msg.lot_size,
                     !.max_total_positions = msg.max_positions]
    ELSE IF msg.type = "strategy_config"
    THEN [cfg EXCEPT !.strategies_enabled = msg.enabled,
                     !.mtf_enabled = msg.mtf_enabled]
    ELSE cfg

RECURSIVE apply_messages(_, _)
apply_messages(cfg, msgs) ==
    IF msgs = <<>> THEN cfg
    ELSE apply_messages(apply_message(cfg, Head(msgs)), Tail(msgs))

\* a loop that empties the queue in one iteration
messages_per_poll_all(queue) == Len(queue)

\* run, line 1130: one get_nowait per iteration
messages_per_poll(queue) == IF queue = <<>> THEN 0 ELSE 1

\* run, lines 1129-1149: the iteration starts by taking what the queue holds
PollGuiQueue ==
    /\ pc = "poll"
    /\ pc' = "top"
    /\ LET n == messages_per_poll(gui_queue)
           cfg == apply_messages(OperatorConfig, SubSeq(gui_queue, 1, n))
       IN  /\ gui_queue' = SubSeq(gui_queue, n + 1, Len(gui_queue))
           /\ UNCHANGED sendVars /\ UNCHANGED trailVars
           /\ strategies_enabled' = cfg.strategies_enabled
           /\ mtf_enabled' = cfg.mtf_enabled
           /\ max_total_positions' = cfg.max_total_positions
           /\ lot_size' = cfg.lot_size
    /\ UNCHANGED <<now, current_time, last_signal_check, last_mtf_update_fast,
                   last_mtf_update_slow, all_signals, final_signals, cycle_positions,
                   defensive_lot_multiplier, aggressive_lot_multiplier,
                   defensive_drawdown_threshold, aggressive_winrate_threshold>>
    /\ UNCHANGED mtfVars
    /\ UNCHANGED bookVars
    /\ UNCHANGED provVars
    /\ UNCHANGED monVars
    /\ UNCHANGED gateVars
    /\ UNCHANGED corrVars
    /\ UNCHANGED logVars

\* run, line 1336: time.sleep(1) ends the iteration, the next one polls first
IterationSleep(d, max) ==
    /\ pc = "top"
    /\ Tick(d, max)
    /\ pc' = "poll"
    /\ UNCHANGED <<current_time, last_signal_check, last_mtf_update_fast,
                   last_mtf_update_slow, all_signals, final_signals, cycle_positions>>
    /\ UNCHANGED mtfVars
    /\ UNCHANGED bookVars
    /\ UNCHANGED cfgVars
    /\ UNCHANGED provVars
    /\ UNCHANGED monVars
    /\ UNCHANGED gateVars
    /\ UNCHANGED corrVars
    /\ UNCHANGED logVars
    /\ UNCHANGED guiVars /\ UNCHANGED sendVars /\ UNCHANGED trailVars

\* the GUI thread, wherever the bot thread is: apply_config, the strategies
\* panel and the other buttons put a message
GuiPut(msg, max_len) ==
    /\ Len(gui_queue) < max_len
    /\ gui_queue' = Append(gui_queue, msg)
    /\ UNCHANGED sendVars /\ UNCHANGED trailVars
    /\ UNCHANGED now
    /\ UNCHANGED mtfVars
    /\ UNCHANGED loopVars
    /\ UNCHANGED bookVars
    /\ UNCHANGED cfgVars
    /\ UNCHANGED provVars
    /\ UNCHANGED monVars
    /\ UNCHANGED gateVars
    /\ UNCHANGED corrVars
    /\ UNCHANGED logVars

\* the GUI thread's update_gui empties the same queue every 100 ms
UpdateGui ==
    /\ gui_queue # <<>>
    /\ gui_queue' = <<>>
    /\ UNCHANGED sendVars /\ UNCHANGED trailVars
    /\ UNCHANGED now
    /\ UNCHANGED mtfVars
    /\ UNCHANGED loopVars
    /\ UNCHANGED bookVars
    /\ UNCHANGED cfgVars
    /\ UNCHANGED provVars
    /\ UNCHANGED monVars
    /\ UNCHANGED gateVars
    /\ UNCHANGED corrVars
    /\ UNCHANGED logVars

\* EquityMonitor.update_config(defensive_dd, aggressive_wr, defensive_lot_mult,
\* aggressive_lot_mult)
EquityUpdateConfig(defensive_dd, aggressive_wr, defensive_lot_mult, aggressive_lot_mult) ==
    /\ pc = "top"
    /\ defensive_drawdown_threshold' =
         IF defensive_dd # NoValue THEN defensive_dd ELSE defensive_drawdown_threshold
    /\ aggressive_winrate_threshold' =
         IF aggressive_wr # NoValue THEN aggressive_wr ELSE aggressive_winrate_threshold
    /\ defensive_lot_multiplier' =
         IF defensive_lot_mult # NoValue THEN stored_defensive_lot_mult(defensive_lot_mult)
         ELSE defensive_lot_multiplier
    /\ aggressive_lot_multiplier' =
         IF aggressive_lot_mult # NoValue THEN aggressive_lot_mult
         ELSE aggressive_lot_multiplier
    /\ UNCHANGED <<now, strategies_enabled, mtf_enabled, max_total_positions, lot_size>>
    /\ UNCHANGED mtfVars
    /\ UNCHANGED loopVars
    /\ UNCHANGED bookVars
    /\ UNCHANGED provVars
    /\ UNCHANGED monVars
    /\ UNCHANGED gateVars
    /\ UNCHANGED corrVars
    /\ UNCHANGED logVars
    /\ UNCHANGED guiVars /\ UNCHANGED sendVars /\ UNCHANGED trailVars

\* run, lines 1180-1191 and 1237-1241: the polling interval has elapsed but
\* the cycle is given up (news filter, no market data, trading disabled)
SkipCycle ==
    /\ pc = "top"
    /\ ~(MtfFastDue \/ MtfSlowDue)
    /\ now - last_signal_check >= PollSeconds
    /\ last_signal_check' = now
    /\ UNCHANGED <<now, pc, current_time, last_mtf_update_fast, last_mtf_update_slow,
                   all_signals, final_signals, cycle_positions>>
    /\ UNCHANGED mtfVars
    /\ UNCHANGED bookVars
    /\ UNCHANGED cfgVars
    /\ UNCHANGED provVars
    /\ UNCHANGED monVars
    /\ UNCHANGED gateVars
    /\ UNCHANGED corrVars
    /\ UNCHANGED logVars
    /\ UNCHANGED guiVars /\ UNCHANGED sendVars /\ UNCHANGED trailVars

\* run, lines 1179-1235: the polling interval has elapsed; collect the
\* signals of the cycle, let the ML validator and then the equity monitor
\* adjust their confidence
CollectSignalsAtPrice(patterns, vmode, metrics, max_changes, current_price) ==
    /\ pc = "top"
    /\ ~(MtfFastDue \/ MtfSlowDue)
    /\ now - last_signal_check >= PollSeconds
    /\ current_time' = now
    /\ LET outs == CollectAnswers(patterns, last_signal_time, now, strategies_enabled)
           mon == MonitorAfterCollect(Monitor, metrics)
           validated == batch_validate_signals(
                            collect_all_signals(outs, now, strategies_enabled, current_price),
                            outs["ml"].signal, vmode)
       IN  /\ mon.mode_changes <= max_changes
           /\ SetMonitor(mon)
           /\ equity_gate' =
                [called |-> TRUE,
                 allow_trade |-> should_allow_trade(Determine(Monitor, metrics).current_mode),
                 offered |-> SourceAndDirection(validated)]
           /\ all_signals' = adjust_confidence(validated, mon.current_mode)
    /\ UNCHANGED corrVars
    /\ UNCHANGED logVars
    /\ UNCHANGED guiVars /\ UNCHANGED sendVars /\ UNCHANGED trailVars
    /\ last_signal_time' =
         LastSignalTimeAfterCollect(patterns, last_signal_time, now, strategies_enabled)
    /\ final_signals' = <<>>
    /\ pc' = "collected"
    /\ UNCHANGED <<now, last_signal_check, last_mtf_update_fast, last_mtf_update_slow,
                   cycle_positions>>
    /\ UNCHANGED mtfVars
    /\ UNCHANGED bookVars
    /\ UNCHANGED cfgVars

\* run, lines 1200-1201: the bid of the tick read before the collection
TickBid == 2000

CollectSignals(patterns, vmode, metrics, max_changes) ==
    CollectSignalsAtPrice(patterns, vmode, metrics, max_changes, TickBid)

\* a signal dict whose 'strategy' is none of the six configured names, as a
\* caller of filter_and_prioritize and open_trade_from_signal may pass it
ForeignSources == {"custom"}
ForeignSignal(name, direction, t, current_price) ==
    [strategy |-> name, signal |-> direction, confidence |-> 80,
     provider_confidence |-> 80, equity_mode |-> "none",
     priority |-> 3, sl_pips |-> 70, timestamp |-> t,
     generation_price |-> current_price,
     mtf_status |-> "none", gates |-> <<"collected">>]

\* the list handed to filter_and_prioritize also holds such a signal
HandForeignSignal(name, direction) ==
    /\ pc = "collected"
    /\ \A i \in 1..Len(all_signals) : all_signals[i].strategy \in Strategies
    /\ all_signals' =
         Append(all_signals, ForeignSignal(name, direction, current_time, TickBid))
    /\ UNCHANGED <<now, pc, current_time, last_signal_check, last_mtf_update_fast,
                   last_mtf_update_slow, final_signals, cycle_positions>>
    /\ UNCHANGED mtfVars
    /\ UNCHANGED bookVars
    /\ UNCHANGED cfgVars
    /\ UNCHANGED provVars
    /\ UNCHANGED monVars
    /\ UNCHANGED gateVars
    /\ UNCHANGED corrVars
    /\ UNCHANGED logVars
    /\ UNCHANGED guiVars /\ UNCHANGED sendVars /\ UNCHANGED trailVars

\* the place of a source in collect_all_signals
ProviderIndex(s) == CHOOSE i \in 1..Len(ProviderOrder) : ProviderOrder[i] = s

\* the answers given before the call of the failing source raised
AnswersBefore(patterns, failing) ==
    [s \in Strategies |->
        IF ProviderIndex(s) < ProviderIndex(failing) THEN patterns[s] ELSE NoSignal]

\* a collection in which the call to one queried source raises an exception.
\* The ML call is inside try/except (lines 130-152): the source contributes
\* no signal and the collection goes on. The calls to the other five are not
\* guarded, neither in collect_all_signals (155-203) nor in run, whose only
\* handler around the loop is for KeyboardInterrupt (main.py 1118, 1338): the
\* exception leaves run after should_allow_trade and the earlier sources ran
CollectSignalsRaising(patterns, failing, vmode, metrics, max_changes) ==
    /\ Queried(failing, strategies_enabled)
    /\ IF failing = "ml"
       THEN CollectSignals([patterns EXCEPT !["ml"] = NoSignal], vmode, metrics,
                           max_changes)
       ELSE /\ pc = "top"
            /\ ~(MtfFastDue \/ MtfSlowDue)
            /\ now - last_signal_check >= PollSeconds
            /\ current_time' = now
            /\ LET mon == Determine(Monitor, metrics)
               IN  /\ mon.mode_changes <= max_changes
                   /\ SetMonitor(mon)
                   /\ equity_gate' =
                        [called |-> TRUE,
                         allow_trade |-> should_allow_trade(mon.current_mode),
                         offered |-> <<>>]
            /\ last_signal_time' =
                 LastSignalTimeAfterCollect(AnswersBefore(patterns, failing),
                                            last_signal_time, now, strategies_enabled)
            /\ pc' = "stopped"
            /\ UNCHANGED <<now, last_signal_check, last_mtf_update_fast,
                           last_mtf_update_slow, all_signals, final_signals,
                           cycle_positions>>
            /\ UNCHANGED mtfVars
            /\ UNCHANGED bookVars
            /\ UNCHANGED cfgVars
            /\ UNCHANGED corrVars
            /\ UNCHANGED logVars
    /\ UNCHANGED guiVars /\ UNCHANGED sendVars /\ UNCHANGED trailVars
    /\ UNCHANGED logVars
    /\ UNCHANGED guiVars /\ UNCHANGED sendVars /\ UNCHANGED trailVars

\* run, lines 1247-1260: snapshot the open positions, filter_and_prioritize
FilterAndPrioritize(data) ==
    /\ pc = "collected"
    /\ LET consulted == MtfConsulted(all_signals, now, last_operation_time, mtf_enabled)
           analysis == analyze_all_timeframes(timeframes, now, data)
       IN  /\ final_signals' =
                filter_and_prioritize(all_signals, Cardinality(positions), active_trades,
                                      max_total_positions, now, last_operation_time,
                                      mtf_enabled, analysis)
           /\ mtf_analysis' = IF consulted THEN analysis ELSE mtf_analysis
           /\ timeframes' = IF consulted THEN TimeframesAfterAnalysis(timeframes, now, data)
                            ELSE timeframes
    /\ last_operation_time' =
         CooldownRecordAfterFilter(last_operation_time, AfterExpiry(all_signals, now), now)
    /\ cycle_positions' = Cardinality(positions)
    /\ pc' = "filtered"
    /\ UNCHANGED <<now, current_time, last_signal_check, last_mtf_update_fast,
                   last_mtf_update_slow, all_signals>>
    /\ UNCHANGED <<positions, active_trades, next_ticket, total_signals_executed,
                   last_exec>>
    /\ UNCHANGED cfgVars
    /\ UNCHANGED provVars
    /\ UNCHANGED monVars
    /\ UNCHANGED gateVars
    /\ UNCHANGED corrVars
    /\ UNCHANGED guiVars /\ UNCHANGED sendVars /\ UNCHANGED trailVars
    /\ drop_log' = drop_log \cup FilterDropEvents(all_signals, now, last_operation_time,
                                                  mtf_enabled,
                                                  analyze_all_timeframes(timeframes, now, data))

\* run, lines 1273-1295: the correlation guard over the finalists
CheckCorrelation(account_balance) ==
    /\ pc = "filtered"
    /\ final_signals' =
         MarkAll(SelectSeq(final_signals,
                           LAMBDA x : check_signal_correlation(x, cycle_positions,
                                                               active_trades, account_balance)),
                 "correlation")
    /\ pc' = "executing"
    /\ UNCHANGED <<now, current_time, last_signal_check, last_mtf_update_fast,
                   last_mtf_update_slow, all_signals, cycle_positions>>
    /\ UNCHANGED mtfVars
    /\ UNCHANGED bookVars
    /\ UNCHANGED cfgVars
    /\ UNCHANGED provVars
    /\ UNCHANGED monVars
    /\ UNCHANGED gateVars
    /\ cycle_balance' = account_balance
    /\ UNCHANGED guiVars /\ UNCHANGED sendVars /\ UNCHANGED trailVars
    /\ drop_log' = drop_log \cup
         {drop_event(final_signals[i], "correlation") :
            i \in {k \in 1..Len(final_signals) :
                     ~check_signal_correlation(final_signals[k], cycle_positions,
                                               active_trades, account_balance)}}

\* open_trade_from_signal, line 766: the branch that registers the execution
\* is taken for a revalidated signal whose order_result has retcode DONE
registers_on_attempt(is_valid, order_done) == is_valid

registers_execution(is_valid, order_done) == is_valid /\ order_done

\* open_trade_from_signal for the next finalist: pattern is what the provider
\* detects on the snapshot at revalidation, order_ok whether send_order
\* returns a DONE result, abort whether an exception leaves the method after
\* mark_signal_as_executed and before the ledger write (run catches it), mode
\* what determine_trading_mode returns inside send_order
OpenTradeFromSignal(pattern, order_ok, abort, metrics, max_trades, max_changes) ==
    /\ pc = "executing"
    /\ final_signals # <<>>
    /\ LET sig == Head(final_signals)
           requery == get_signal(sig.strategy, pattern, last_signal_time, now)
           is_valid == revalidate_signal(sig, requery)
           mode == Determine(Monitor, metrics).current_mode
           lot_multiplier == get_lot_multiplier(mode, defensive_lot_multiplier,
                                                aggressive_lot_multiplier)
           mon == IF is_valid THEN MonitorAfterSendOrder(Monitor, metrics, lot_multiplier)
                  ELSE Monitor
           volume == adjusted_volume(lot_size, lot_multiplier)
           volume_ok == is_valid /\ validate_volume(volume)
           done == volume_ok /\ order_ok
           registered == registers_execution(is_valid, done)
           recorded == registered /\ ~abort
       IN  /\ done => next_ticket <= max_trades
           /\ mon.mode_changes <= max_changes
           /\ SetMonitor(mon)
           /\ last_exec' =
                [called |-> TRUE, strategy |-> sig.strategy, signal |-> sig.signal,
                 gates |-> IF is_valid THEN Append(sig.gates, "revalidated") ELSE sig.gates,
                 requery |-> requery, same_snapshot |-> SamePattern(sig, pattern),
                 valid |-> is_valid, sent |-> is_valid,
                 mode |-> IF is_valid THEN mode ELSE "none", volume_ok |-> volume_ok,
                 done |-> done, registered |-> registered, recorded |-> recorded]
           /\ last_signal_time' =
                stamp_signal_time(last_signal_time, sig.strategy, requery, now)
           /\ last_operation_time' =
                IF registered
                THEN register_operation(last_operation_time, sig.strategy, now)
                ELSE last_operation_time
           /\ total_signals_executed' =
                IF recorded THEN total_signals_executed + 2
                ELSE IF registered THEN total_signals_executed + 1
                ELSE total_signals_executed
           /\ active_trades' =
                IF recorded
                THEN [k \in DOMAIN active_trades \cup {next_ticket} |->
                        IF k = next_ticket
                        THEN [strategy |-> sig.strategy, signal |-> sig.signal,
                              sl_pips |-> sig.sl_pips]
                        ELSE active_trades[k]]
                ELSE active_trades
           /\ positions' = IF done THEN positions \cup {next_ticket} ELSE positions
           /\ drop_log' = IF is_valid THEN drop_log
                          ELSE drop_log \cup {drop_event(sig, "revalidation")}
           /\ next_ticket' = IF done THEN next_ticket + 1 ELSE next_ticket
    /\ final_signals' = Tail(final_signals)
    /\ UNCHANGED guiVars /\ UNCHANGED sendVars /\ UNCHANGED trailVars
    /\ UNCHANGED <<now, pc, current_time, last_signal_check, last_mtf_update_fast,
                   last_mtf_update_slow, all_signals, cycle_positions>>
    /\ UNCHANGED mtfVars
    /\ UNCHANGED cfgVars
    /\ UNCHANGED gateVars
    /\ UNCHANGED corrVars

(***************************************************************************)
(* send_order, lines 577-692, step by step: the call up to the validation, *)
(* the head of an attempt (the tick is read again), one order_send request *)
(***************************************************************************)
max_retry_attempts == 3

\* lines 610-621: the filling modes the symbol's filling_mode bits allow
filling_modes(filling_type) ==
    LET allowed == (IF filling_type % 2 = 1 THEN <<"FOK">> ELSE <<>>)
                   \o (IF (filling_type \div 2) % 2 = 1 THEN <<"IOC">> ELSE <<>>)
                   \o (IF (filling_type \div 4) % 2 = 1 THEN <<"RETURN">> ELSE <<>>)
    IN  IF allowed = <<>> THEN <<"FOK", "IOC">> ELSE allowed

\* a loop that runs once more than range(1, max_attempts + 1)
has_attempt_left_one_more(attempt, max_attempts) == attempt <= max_attempts

\* lines 632, 686: attempt < max_attempts
has_attempt_left(attempt, max_attempts) == attempt < max_attempts

\* the end of an attempt: the next one after the sleep, or the loop is over
\* and send_order returns None
AfterAttempt(o) ==
    IF has_attempt_left(o.attempt, max_retry_attempts)
    THEN [o EXCEPT !.phase = "attempt", !.attempt = @ + 1, !.fill = 0]
    ELSE [o EXCEPT !.phase = "returned", !.result = "none", !.fill = 0]

\* lines 577-623: no tick or a failed validation returns None at once
SendOrderCall(tick_ok, is_valid, filling_type) ==
    /\ order_send.phase \in {"idle", "returned", "raised"}
    /\ order_send' =
         IF tick_ok /\ is_valid
         THEN [phase |-> "attempt", attempt |-> 1, fill |-> 0,
               modes |-> filling_modes(filling_type), requests |-> 0,
               done_seen |-> FALSE, result |-> "none"]
         ELSE [phase |-> "returned", attempt |-> 0, fill |-> 0, modes |-> <<>>,
               requests |-> 0, done_seen |-> FALSE, result |-> "none"]
    /\ UNCHANGED now
    /\ UNCHANGED mtfVars
    /\ UNCHANGED loopVars
    /\ UNCHANGED bookVars
    /\ UNCHANGED cfgVars
    /\ UNCHANGED provVars
    /\ UNCHANGED monVars
    /\ UNCHANGED gateVars
    /\ UNCHANGED corrVars
    /\ UNCHANGED logVars
    /\ UNCHANGED guiVars /\ UNCHANGED trailVars

\* lines 626-636: the tick at the head of an attempt
SendOrderAttempt(tick_ok) ==
    /\ order_send.phase = "attempt"
    /\ order_send' =
         IF tick_ok THEN [order_send EXCEPT !.phase = "filling", !.fill = 1]
         ELSE AfterAttempt(order_send)
    /\ UNCHANGED now
    /\ UNCHANGED mtfVars
    /\ UNCHANGED loopVars
    /\ UNCHANGED bookVars
    /\ UNCHANGED cfgVars
    /\ UNCHANGED provVars
    /\ UNCHANGED monVars
    /\ UNCHANGED gateVars
    /\ UNCHANGED corrVars
    /\ UNCHANGED logVars
    /\ UNCHANGED guiVars /\ UNCHANGED trailVars

\* lines 640-684: one request of the inner loop and the broker's answer;
\* "none" is order_send returning None, on which result.retcode raises
SendOrderRequest(retcode) ==
    /\ order_send.phase = "filling"
    /\ LET sent == [order_send EXCEPT !.requests = @ + 1,
                                      !.done_seen = @ \/ retcode = "DONE"]
       IN  order_send' =
             IF retcode = "none" THEN [sent EXCEPT !.phase = "raised", !.fill = 0]
             ELSE IF retcode = "DONE"
             THEN [sent EXCEPT !.phase = "returned", !.result = "success", !.fill = 0]
             ELSE IF retcode \in {"10027", "10030"} /\ sent.fill < Len(sent.modes)
             THEN [sent EXCEPT !.fill = @ + 1]
             ELSE AfterAttempt(sent)
    /\ UNCHANGED now
    /\ UNCHANGED mtfVars
    /\ UNCHANGED loopVars
    /\ UNCHANGED bookVars
    /\ UNCHANGED cfgVars
    /\ UNCHANGED provVars
    /\ UNCHANGED monVars
    /\ UNCHANGED gateVars
    /\ UNCHANGED corrVars
    /\ UNCHANGED logVars
    /\ UNCHANGED guiVars /\ UNCHANGED trailVars

(***************************************************************************)
(* TrailingStopBreakevenSystem and the validator of SL/TP modifications.   *)
(* Prices and distances are in points of 0.01, the pip of this module      *)
(* (profit_pips = price difference / 0.01); position type 0 is BUY, 1 SELL *)
(***************************************************************************)
trailing_activation_pips == 30
trailing_distance_pips == 20
breakeven_activation_pips == 40
breakeven_safety_pips == 5
min_distance_from_price_pips == 10

profit_pips(type, price_open, current_price) ==
    IF type = 0 THEN current_price - price_open ELSE price_open - current_price

\* validate_modification_stops, lines 381-392: min_distance in points
modification_min_distance(stops_level) ==
    LET min_distance == IF stops_level = 0 THEN 10 * 10 ELSE stops_level
        safety_margin == min_distance_from_price_pips * 10
    IN  Max(min_distance, safety_margin) + 5 * 10

\* a validator without the test against the position's current stop
validate_modification_stops_unchecked(type, sl, new_sl, current_price, stops_level) ==
    LET min_distance == modification_min_distance(stops_level)
        adjusted == IF type = 0
                    THEN IF current_price - new_sl < min_distance
                         THEN current_price - min_distance - 10 * 10 ELSE new_sl
                    ELSE IF new_sl - current_price < min_distance
                         THEN current_price + min_distance + 10 * 10 ELSE new_sl
    IN  IF new_sl <= 0 THEN [valid |-> TRUE, sl |-> new_sl]
        ELSE IF type = 0 /\ new_sl >= current_price THEN [valid |-> FALSE, sl |-> new_sl]
        ELSE IF type # 0 /\ new_sl <= current_price THEN [valid |-> FALSE, sl |-> new_sl]
        ELSE [valid |-> TRUE, sl |-> adjusted]

\* validate_modification_stops(position, new_sl, new_tp, current_price), the
\* stop-loss part (lines 396-426): is_valid and the adjusted level
validate_modification_stops(type, sl, new_sl, current_price, stops_level) ==
    LET min_distance == modification_min_distance(stops_level)
        adjusted == IF type = 0
                    THEN IF current_price - new_sl < min_distance
                         THEN current_price - min_distance - 10 * 10 ELSE new_sl
                    ELSE IF new_sl - current_price < min_distance
                         THEN current_price + min_distance + 10 * 10 ELSE new_sl
    IN  IF new_sl <= 0 THEN [valid |-> TRUE, sl |-> new_sl]
        ELSE IF type = 0 /\ new_sl >= current_price THEN [valid |-> FALSE, sl |-> new_sl]
        ELSE IF type # 0 /\ new_sl <= current_price THEN [valid |-> FALSE, sl |-> new_sl]
        ELSE IF type = 0 /\ sl > 0 /\ adjusted < sl THEN [valid |-> FALSE, sl |-> adjusted]
        ELSE IF type # 0 /\ sl > 0 /\ adjusted > sl THEN [valid |-> FALSE, sl |-> adjusted]
        ELSE [valid |-> TRUE, sl |-> adjusted]

\* check_and_apply_trailing_stop, lines 124-140: the tracker after the call
TrackerAfter(pos, current_price) ==
    LET profit == profit_pips(pos.type, pos.price_open, current_price)
    IN  IF profit < trailing_activation_pips THEN pos
        ELSE IF ~pos.tracking
        THEN [pos EXCEPT !.tracking = TRUE, !.highest_profit = profit,
                         !.highest_profit_price = current_price]
        ELSE IF profit > pos.highest_profit
        THEN [pos EXCEPT !.highest_profit = profit,
                         !.highest_profit_price = current_price]
        ELSE pos

\* lines 142-162: the level the trailing check asks for, 0 when it asks nothing
trailing_request(pos, current_price) ==
    LET tracked == TrackerAfter(pos, current_price)
        new_sl == IF pos.type = 0
                  THEN tracked.highest_profit_price - trailing_distance_pips
                  ELSE tracked.highest_profit_price + trailing_distance_pips
    IN  IF profit_pips(pos.type, pos.price_open, current_price) < trailing_activation_pips
        THEN 0
        ELSE IF pos.type = 0 /\ new_sl > pos.sl THEN new_sl
        ELSE IF pos.type # 0 /\ new_sl < pos.sl THEN new_sl
        ELSE 0

\* check_and_apply_breakeven, lines 171-191: the level it asks for, or 0
breakeven_request(pos, current_price) ==
    IF \/ pos.breakeven
       \/ profit_pips(pos.type, pos.price_open, current_price) < breakeven_activation_pips
    THEN 0
    ELSE IF pos.type = 0 THEN pos.price_open + breakeven_safety_pips
    ELSE pos.price_open - breakeven_safety_pips

\* process_position(position, current_price): trailing first, breakeven when
\* trailing returned False. checks_ok: connection, symbol, market, cooldown and
\* freeze level let the first validation pass (a passed validation stamps the
\* cooldown, which blocks a second one in the same call); done: the broker
\* answers DONE to the request
ProcessPosition(current_price, checks_ok, stops_level, done) ==
    /\ trail.open
    /\ LET tracked == TrackerAfter(trail, current_price)
           t_req == trailing_request(trail, current_price)
           t_val == validate_modification_stops(trail.type, trail.sl, t_req,
                                                current_price, stops_level)
           t_sent == t_req # 0 /\ checks_ok /\ t_val.valid
           b_req == IF t_sent /\ done THEN 0 ELSE breakeven_request(trail, current_price)
           b_val == validate_modification_stops(trail.type, trail.sl, b_req,
                                                current_price, stops_level)
           b_sent == b_req # 0 /\ ~t_sent /\ checks_ok /\ b_val.valid
           mod == IF t_sent
                  THEN [sent |-> TRUE, by |-> "trailing", old_sl |-> trail.sl,
                        requested_sl |-> t_req, new_sl |-> t_val.sl, done |-> done]
                  ELSE IF b_sent
                  THEN [sent |-> TRUE, by |-> "breakeven", old_sl |-> trail.sl,
                        requested_sl |-> b_req, new_sl |-> b_val.sl, done |-> done]
                  ELSE NoModification
       IN  trail' = [tracked EXCEPT
                        !.sl = IF mod.sent /\ done THEN mod.new_sl ELSE @,
                        !.breakeven = @ \/ (b_sent /\ done),
                        !.last_mod = mod]
    /\ UNCHANGED now
    /\ UNCHANGED mtfVars
    /\ UNCHANGED loopVars
    /\ UNCHANGED bookVars
    /\ UNCHANGED cfgVars
    /\ UNCHANGED provVars
    /\ UNCHANGED monVars
    /\ UNCHANGED gateVars
    /\ UNCHANGED corrVars
    /\ UNCHANGED logVars
    /\ UNCHANGED guiVars /\ UNCHANGED sendVars

\* a position of the bot appears at the broker with the stop send_order gave it
PositionOpened(type, price_open, sl_pips) ==
    /\ ~trail.open
    /\ trail' = [NoPosition EXCEPT
                    !.open = TRUE, !.type = type, !.price_open = price_open,
                    !.sl = IF type = 0 THEN price_open - sl_pips * 10
                           ELSE price_open + sl_pips * 10]
    /\ UNCHANGED now
    /\ UNCHANGED mtfVars
    /\ UNCHANGED loopVars
    /\ UNCHANGED bookVars
    /\ UNCHANGED cfgVars
    /\ UNCHANGED provVars
    /\ UNCHANGED monVars
    /\ UNCHANGED gateVars
    /\ UNCHANGED corrVars
    /\ UNCHANGED logVars
    /\ UNCHANGED guiVars /\ UNCHANGED sendVars

\* the position is closed: cleanup_closed_position drops the trackers
PositionClosed ==
    /\ trail.open
    /\ trail' = NoPosition
    /\ UNCHANGED now
    /\ UNCHANGED mtfVars
    /\ UNCHANGED loopVars
    /\ UNCHANGED bookVars
    /\ UNCHANGED cfgVars
    /\ UNCHANGED provVars
    /\ UNCHANGED monVars
    /\ UNCHANGED gateVars
    /\ UNCHANGED corrVars
    /\ UNCHANGED logVars
    /\ UNCHANGED guiVars /\ UNCHANGED sendVars

\* SignalAggregator.mark_signal_as_executed(signal) for a signal of the given
\* strategy: register_operation, then the counter
MarkSignalAsExecuted(strategy, max_count) ==
    /\ total_signals_executed < max_count
    /\ last_operation_time' = register_operation(last_operation_time, strategy, now)
    /\ total_signals_executed' = total_signals_executed + 1
    /\ UNCHANGED <<now, positions, active_trades, next_ticket, last_exec>>
    /\ UNCHANGED mtfVars
    /\ UNCHANGED loopVars
    /\ UNCHANGED cfgVars
    /\ UNCHANGED provVars
    /\ UNCHANGED monVars
    /\ UNCHANGED gateVars
    /\ UNCHANGED corrVars
    /\ UNCHANGED logVars
    /\ UNCHANGED guiVars /\ UNCHANGED sendVars /\ UNCHANGED trailVars

\* run, line 1325: the cycle ends
EndCycle ==
    /\ pc = "executing"
    /\ final_signals = <<>>
    /\ last_signal_check' = current_time
    /\ all_signals' = <<>>
    /\ cycle_positions' = 0
    /\ mtf_analysis' = NoAnalysis
    /\ last_exec' = NoExec
    /\ pc' = "top"
    /\ UNCHANGED <<now, timeframes, current_time, last_mtf_update_fast,
                   last_mtf_update_slow, final_signals, positions, active_trades,
                   next_ticket, last_operation_time, total_signals_executed>>
    /\ UNCHANGED cfgVars
    /\ UNCHANGED provVars
    /\ UNCHANGED monVars
    /\ equity_gate' = NoGate
    /\ cycle_balance' = NoValue
    /\ drop_log' = {}
    /\ UNCHANGED guiVars /\ UNCHANGED sendVars /\ UNCHANGED trailVars

\* the broker closes a position (stop-loss or take-profit hit); the loop reads
\* the broker's positions in check_and_close_trades and before
\* filter_and_prioritize only, so a closing shows at the top of an iteration
BrokerClose(k) ==
    /\ pc = "top"
    /\ k \in positions
    /\ positions' = positions \ {k}
    /\ UNCHANGED <<now, active_trades, next_ticket, last_operation_time,
                   total_signals_executed, last_exec>>
    /\ UNCHANGED mtfVars
    /\ UNCHANGED loopVars
    /\ UNCHANGED cfgVars
    /\ UNCHANGED provVars
    /\ UNCHANGED monVars
    /\ UNCHANGED gateVars
    /\ UNCHANGED corrVars
    /\ UNCHANGED logVars
    /\ UNCHANGED guiVars /\ UNCHANGED sendVars /\ UNCHANGED trailVars

\* check_and_close_trades: the trades whose closing deal is in the history
\* leave active_trades
CheckAndCloseTrades ==
    /\ pc = "top"
    /\ \E k \in DOMAIN active_trades : k \notin positions
    /\ active_trades' = [k \in DOMAIN active_trades \cap positions |-> active_trades[k]]
    /\ UNCHANGED <<now, positions, next_ticket, last_operation_time,
                   total_signals_executed, last_exec>>
    /\ UNCHANGED mtfVars
    /\ UNCHANGED loopVars
    /\ UNCHANGED cfgVars
    /\ UNCHANGED provVars
    /\ UNCHANGED monVars
    /\ UNCHANGED gateVars
    /\ UNCHANGED corrVars
    /\ UNCHANGED logVars
    /\ UNCHANGED guiVars /\ UNCHANGED sendVars /\ UNCHANGED trailVars

(***************************************************************************)
(* SpecMTF: the trend voter alone, driven by its callers                   *)
(***************************************************************************)
MtfMaxTime == 600
MtfStep == 300
ActiveTfChoices ==
    {<<>>, <<"M30">>, <<"H1", "H4">>, <<"M30", "D1">>, <<"H1", "H4", "D1">>,
     <<"W1", "M1">>}

nonMtfVars == <<pc, current_time, last_signal_check, last_mtf_update_fast,
                last_mtf_update_slow, all_signals, final_signals, positions,
                cycle_positions, active_trades, next_ticket, last_operation_time,
                strategies_enabled, mtf_enabled, max_total_positions,
                total_signals_executed, last_exec, last_signal_time, lot_size,
                defensive_lot_multiplier, aggressive_lot_multiplier,
                defensive_drawdown_threshold, aggressive_winrate_threshold,
                current_mode, current_drawdown, current_winrate, mode_changes,
                equity_gate, cycle_balance, drop_log, gui_queue, order_send,
                trail>>

MtfTick == Tick(MtfStep, MtfMaxTime) /\ UNCHANGED mtfVars /\ UNCHANGED nonMtfVars

MtfAnalyze ==
    \E data \in [get_active_timeframes(timeframes) -> FetchOutcomes] :
        AnalyzeAllTimeframes(data) /\ UNCHANGED now /\ UNCHANGED nonMtfVars

MtfUpdateActive ==
    \E l \in ActiveTfChoices :
        UpdateActiveTimeframes(l) /\ UNCHANGED now /\ UNCHANGED nonMtfVars

NextMTF == MtfTick \/ MtfAnalyze \/ MtfUpdateActive

SpecMTF == Init /\ [][NextMTF]_vars

(***************************************************************************)
(* Spec: the polling loop with the whole pipeline                          *)
(***************************************************************************)
MaxTime == 1800
TimeStep == 900
MaxTrades == 2
MaxSignalsPerCycle == 2
MaxModeChanges == 3

CapChoices == {1, DEFAULT_MAX_POSITIONS}
BalanceChoices == {1000, 10000}
\* closed trades that give each mode under the initial thresholds
TradingModes == {"normal", "defensive", "aggressive"}
ModeMetrics ==
    [normal |-> NoTradesMetrics,
     defensive |-> [drawdown_pct |-> InitDefensiveDrawdownThreshold, winrate |-> 0],
     aggressive |-> [drawdown_pct |-> 0, winrate |-> InitAggressiveWinrateThreshold]]
\* what the ML validator and the equity monitor do in one cycle: the memory
\* holds no closed trade, so the monitor stays in normal mode
CycleModes == {<<"neutral", "normal">>, <<"sure", "normal">>, <<"unsure", "normal">>}
\* the closed trades do not change while the finalists of a cycle are executed
StoredMetrics == [drawdown_pct |-> current_drawdown, winrate |-> current_winrate]

\* the strategy_config messages the operator sends
StrategyConfigChoices ==
    {[enabled |-> [s \in Strategies |-> s # c[1]], mtf_enabled |-> c[2]] :
        c \in {<<"none", TRUE>>, <<"none", FALSE>>, <<"sr", TRUE>>}}

\* the answers of the six providers in one cycle: at most MaxSignalsPerCycle
\* of the providers in AnsweringProviders have a signal, the others none
AnsweringProviders == {"ml", "sr", "liquidity"}
CycleOutputs ==
    {outs \in [Strategies -> ProviderOutputs] :
        /\ \A s \in Strategies \ AnsweringProviders : ~outs[s].some
        /\ Cardinality({s \in Strategies : outs[s].some}) <= MaxSignalsPerCycle}

\* time.sleep and the time the calls of a cycle take
SleepFor(d, max) ==
    /\ pc \in {"top", "collected"}
    /\ Tick(d, max)
    /\ UNCHANGED mtfVars
    /\ UNCHANGED loopVars
    /\ UNCHANGED bookVars
    /\ UNCHANGED cfgVars
    /\ UNCHANGED provVars
    /\ UNCHANGED monVars
    /\ UNCHANGED gateVars
    /\ UNCHANGED corrVars
    /\ UNCHANGED logVars
    /\ UNCHANGED guiVars /\ UNCHANGED sendVars /\ UNCHANGED trailVars

SleepUntil(max) == SleepFor(TimeStep, max)

Sleep == SleepUntil(MaxTime)
GuiConfig == \E m \in CapChoices : UpdateConfig(DEFAULT_LOT_SIZE, m)
GuiStrategyConfig == \E c \in StrategyConfigChoices : UpdateStrategyConfig(c)
Collect == \E outs \in CycleOutputs, m \in CycleModes :
               CollectSignals(outs, m[1], ModeMetrics[m[2]], MaxModeChanges)
Filter == \E data \in [get_active_timeframes(timeframes) -> FetchOutcomes] :
              FilterAndPrioritize(data)
Correlate == \E b \in BalanceChoices : CheckCorrelation(b)
Execute == \E pattern \in ProviderOutputs, order_ok \in BOOLEAN :
               OpenTradeFromSignal(pattern, order_ok, FALSE, StoredMetrics, MaxTrades,
                                   MaxModeChanges)
Close == \E k \in positions : BrokerClose(k)

Next ==
    \/ Sleep
    \/ RunLoopMtfRefresh
    \/ GuiConfig
    \/ GuiStrategyConfig
    \/ SkipCycle
    \/ Collect
    \/ Filter
    \/ Correlate
    \/ Execute
    \/ EndCycle
    \/ Close
    \/ CheckAndCloseTrades

Spec == Init /\ [][Next]_vars

(***************************************************************************)
(* SpecML: the same loop over a longer horizon, the ML model and the S/R    *)
(* system being the only providers that have signals                       *)
(***************************************************************************)
LongMaxTime == 2700

LongProviders == {"ml", "sr"}
MLOutputs == {outs \in CycleOutputs : \A s \in Strategies \ LongProviders : ~outs[s].some}

LongSleep == SleepUntil(LongMaxTime)
CollectML == \E outs \in MLOutputs :
                 CollectSignals(outs, "neutral", NoTradesMetrics, MaxModeChanges)

NextML ==
    \/ LongSleep
    \/ RunLoopMtfRefresh
    \/ GuiConfig
    \/ GuiStrategyConfig
    \/ SkipCycle
    \/ CollectML
    \/ Filter
    \/ Correlate
    \/ Execute
    \/ EndCycle
    \/ Close
    \/ CheckAndCloseTrades

SpecML == Init /\ [][NextML]_vars

(***************************************************************************)
(* SpecExpiry: one provider answers per cycle and the loop is delayed      *)
(* between collection and filtering by the timeout, one second less and    *)
(* one second more                                                         *)
(***************************************************************************)
ExpiryMaxTime == 151
ExpirySteps ==
    {PollSeconds, signal_timeout_minutes * 60 - 1, signal_timeout_minutes * 60,
     signal_timeout_minutes * 60 + 1}
ExpiryOutputs ==
    {outs \in [Strategies -> ProviderOutputs] :
        Cardinality({s \in Strategies : outs[s].some}) <= 1}

ExpirySleep == \E d \in ExpirySteps : SleepFor(d, ExpiryMaxTime)
CollectOne == \E outs \in ExpiryOutputs :
                  CollectSignals(outs, "neutral", NoTradesMetrics, MaxModeChanges)
\* the broker rejects every order of this run
ExecuteRejected == \E pattern \in ProviderOutputs :
                       OpenTradeFromSignal(pattern, FALSE, FALSE, NoTradesMetrics,
                                           MaxTrades, MaxModeChanges)

NextExpiry ==
    \/ ExpirySleep
    \/ RunLoopMtfRefresh
    \/ GuiStrategyConfig
    \/ CollectOne
    \/ Filter
    \/ Correlate
    \/ ExecuteRejected
    \/ EndCycle

SpecExpiry == Init /\ [][NextExpiry]_vars

(***************************************************************************)
(* SpecCooldown: the registrar called any number of times as the clock     *)
(* advances                                                                *)
(***************************************************************************)
CooldownMaxTime == 2400
CooldownStep == 300
MaxRegistrations == 3
RegisteringStrategies == {"ml", "sr"}

CooldownSleep == SleepFor(CooldownStep, CooldownMaxTime)
MarkExecuted == \E s \in RegisteringStrategies : MarkSignalAsExecuted(s, MaxRegistrations)

NextCooldown ==
    \/ CooldownSleep
    \/ MarkExecuted

SpecCooldown == Init /\ [][NextCooldown]_vars

(***************************************************************************)
(* SpecAbort: the polling loop over two cycles, the ML model and S/R       *)
(* answering, where open_trade_from_signal may also be left by an          *)
(* exception after the order is DONE                                       *)
(***************************************************************************)
AbortSleep == SleepUntil(MaxTime)
ExecuteOrAbort == \E pattern \in ProviderOutputs, order_ok \in BOOLEAN, abort \in BOOLEAN :
                      OpenTradeFromSignal(pattern, order_ok, abort, NoTradesMetrics,
                                          MaxTrades, MaxModeChanges)

NextAbort ==
    \/ AbortSleep
    \/ RunLoopMtfRefresh
    \/ SkipCycle
    \/ CollectML
    \/ Filter
    \/ Correlate
    \/ ExecuteOrAbort
    \/ EndCycle
    \/ Close
    \/ CheckAndCloseTrades

SpecAbort == Init /\ [][NextAbort]_vars

(***************************************************************************)
(* SpecEquity: one cycle of the polling loop in which the operator sets    *)
(* the base lot and the equity monitor's multipliers, and the order is     *)
(* sent in any trading mode                                                *)
(***************************************************************************)
EquityMaxTime == 900
LotChoices == {volume_min, DEFAULT_LOT_SIZE}
DefensiveMultChoices == {NoValue, 25, defensive_lot_floor, 75}
AggressiveMultChoices == {NoValue, 150}

EquitySleep == SleepUntil(EquityMaxTime)
GuiLot == \E l \in LotChoices : UpdateConfig(l, DEFAULT_MAX_POSITIONS)
EquityConfig == \E d \in DefensiveMultChoices, a \in AggressiveMultChoices :
                    EquityUpdateConfig(NoValue, NoValue, d, a)
ExecuteInMode == \E pattern \in ProviderOutputs, order_ok \in BOOLEAN, mode \in TradingModes :
                     OpenTradeFromSignal(pattern, order_ok, FALSE, ModeMetrics[mode],
                                         MaxTrades, MaxModeChanges)

NextEquity ==
    \/ EquitySleep
    \/ RunLoopMtfRefresh
    \/ GuiLot
    \/ EquityConfig
    \/ CollectML
    \/ Filter
    \/ Correlate
    \/ ExecuteInMode
    \/ EndCycle

SpecEquity == Init /\ [][NextEquity]_vars

(***************************************************************************)
(* SpecConfidence: one cycle in any trading mode, the ML model and S/R     *)
(* answering with confidences around their minimum                         *)
(***************************************************************************)
NearMinimumConf == {66, 72, 80}
NearMinimumOutputs ==
    {outs \in [Strategies ->
                 {NoSignal} \cup {[some |-> TRUE, signal |-> 1, confidence |-> c] :
                                     c \in NearMinimumConf}] :
        \A s \in Strategies \ LongProviders : ~outs[s].some}

CollectInMode == \E outs \in NearMinimumOutputs, mode \in TradingModes :
                     CollectSignals(outs, "neutral", ModeMetrics[mode], MaxModeChanges)

NextConfidence ==
    \/ EquitySleep
    \/ RunLoopMtfRefresh
    \/ CollectInMode
    \/ Filter
    \/ Correlate
    \/ Execute
    \/ EndCycle

SpecConfidence == Init /\ [][NextConfidence]_vars

(***************************************************************************)
(* The equity monitor over several cycles: the closed trades of the memory *)
(* give metrics on both sides of every threshold, and the thresholds can   *)
(* be reconfigured                                                         *)
(***************************************************************************)
MonitorMaxTime == 1800
MonitorDrawdowns == {0, AggressiveDrawdownLimit - 1, AggressiveDrawdownLimit,
                     InitDefensiveDrawdownThreshold - 1, InitDefensiveDrawdownThreshold}
MonitorWinrates == {InitAggressiveWinrateThreshold - 1, InitAggressiveWinrateThreshold}
MonitorMetrics == [drawdown_pct : MonitorDrawdowns, winrate : MonitorWinrates]
DrawdownThresholdChoices == {NoValue, InitDefensiveDrawdownThreshold - 1}
WinrateThresholdChoices == {NoValue, InitAggressiveWinrateThreshold - 1}
MonitorOutputs ==
    {outs \in MLOutputs : \A s \in Strategies : outs[s].some => outs[s].signal = 1}

MonitorSleep == SleepUntil(MonitorMaxTime)
MonitorConfig == \E d \in DrawdownThresholdChoices, w \in WinrateThresholdChoices :
                     EquityUpdateConfig(d, w, NoValue, NoValue)
CollectOnMetrics == \E outs \in MonitorOutputs, metrics \in MonitorMetrics :
                        CollectSignals(outs, "neutral", metrics, MaxModeChanges)
ExecuteOnStored == \E pattern \in ProviderOutputs :
                       OpenTradeFromSignal(pattern, FALSE, FALSE, StoredMetrics, MaxTrades,
                                           MaxModeChanges)

NextMonitor ==
    \/ MonitorSleep
    \/ RunLoopMtfRefresh
    \/ MonitorConfig
    \/ CollectOnMetrics
    \/ Filter
    \/ Correlate
    \/ ExecuteOnStored
    \/ EndCycle

SpecMonitor == Init /\ [][NextMonitor]_vars

(***************************************************************************)
(* The correlation guard: three providers whose stop distances lie within  *)
(* min_sl_distance_pips of each other, all buying, over three cycles, with *)
(* the trend gate switched off or on                                       *)
(***************************************************************************)
CorrMaxTime == 1800
CorrMaxTrades == 3
CorrProviders == {"sr", "price_action", "fibo"}
CorrOutputs ==
    {outs \in [Strategies -> {NoSignal, [some |-> TRUE, signal |-> 1, confidence |-> 80]}] :
        /\ \A s \in Strategies \ CorrProviders : ~outs[s].some
        /\ Cardinality({s \in Strategies : outs[s].some}) \in 1..MaxSignalsPerCycle}

CorrSleep == SleepUntil(CorrMaxTime)
TrendGateOff ==
    UpdateStrategyConfig([enabled |-> [s \in Strategies |-> TRUE], mtf_enabled |-> FALSE])
CollectCorr == \E outs \in CorrOutputs :
                   CollectSignals(outs, "neutral", NoTradesMetrics, MaxModeChanges)
ExecuteCorr == \E pattern \in {NoSignal, [some |-> TRUE, signal |-> 1, confidence |-> 80]},
                  order_ok \in BOOLEAN :
                   OpenTradeFromSignal(pattern, order_ok, FALSE, NoTradesMetrics,
                                       CorrMaxTrades, MaxModeChanges)

NextCorrelation ==
    \/ CorrSleep
    \/ RunLoopMtfRefresh
    \/ TrendGateOff
    \/ CollectCorr
    \/ Filter
    \/ Correlate
    \/ ExecuteCorr
    \/ EndCycle

SpecCorrelation == Init /\ [][NextCorrelation]_vars

(***************************************************************************)
(* Collection and revalidation with a source whose call raises             *)
(***************************************************************************)
FailureMaxTime == 900
FailureSleep == SleepUntil(FailureMaxTime)
CollectRaising == \E outs \in CycleOutputs, failing \in Strategies :
                      CollectSignalsRaising(outs, failing, "neutral", NoTradesMetrics,
                                            MaxModeChanges)
\* revalidate_signal catches the exception of the source queried again and
\* answers False (signal_aggregator.py 324-326), as Execute does for a source
\* that answers None

NextFailure ==
    \/ FailureSleep
    \/ RunLoopMtfRefresh
    \/ GuiStrategyConfig
    \/ CollectRaising
    \/ Filter
    \/ Correlate
    \/ Execute
    \/ EndCycle

SpecFailure == Init /\ [][NextFailure]_vars

(***************************************************************************)
(* The operator switches single sources off and on; in a cycle any one of  *)
(* the six sources has a signal                                            *)
(***************************************************************************)
DisableMaxTime == 900
DisableChoices ==
    {[enabled |-> [s \in Strategies |-> s # d], mtf_enabled |-> FALSE] :
        d \in Strategies \cup {"none"}}
DisableOutputs ==
    {outs \in [Strategies -> {NoSignal, [some |-> TRUE, signal |-> 1, confidence |-> 80]}] :
        Cardinality({s \in Strategies : outs[s].some}) = 1}

DisableSleep == SleepUntil(DisableMaxTime)
GuiDisable == \E c \in DisableChoices : UpdateStrategyConfig(c)
CollectAny == \E outs \in DisableOutputs :
                  CollectSignals(outs, "neutral", NoTradesMetrics, MaxModeChanges)

NextDisable ==
    \/ DisableSleep
    \/ RunLoopMtfRefresh
    \/ GuiDisable
    \/ CollectAny
    \/ Filter
    \/ Correlate
    \/ Execute
    \/ EndCycle

SpecDisable == Init /\ [][NextDisable]_vars

(***************************************************************************)
(* The polling loop at its own pace: an iteration every PollSeconds, so    *)
(* that cycles fall between the loop's 60 s timer and a horizon's refresh  *)
(***************************************************************************)
CacheMaxTime == 90
CacheSleep == SleepFor(PollSeconds, CacheMaxTime)

NextCache ==
    \/ CacheSleep
    \/ RunLoopMtfRefresh
    \/ SkipCycle
    \/ CollectML
    \/ Filter
    \/ Correlate
    \/ ExecuteRejected
    \/ EndCycle

SpecCache == Init /\ [][NextCache]_vars

(***************************************************************************)
(* Collections on changing prices: any subset of the six sources answers   *)
(* and the tick read before the collection has one of several bids, or is  *)
(* missing (price 0)                                                       *)
(***************************************************************************)
StampMaxTime == 900
TickPrices == {0, TickBid, TickBid + 1}
StampOutputs ==
    [Strategies -> {NoSignal, [some |-> TRUE, signal |-> 1, confidence |-> 80]}]

StampSleep == SleepUntil(StampMaxTime)
CollectStamped ==
    \E outs \in StampOutputs, current_price \in TickPrices :
        CollectSignalsAtPrice(outs, "neutral", NoTradesMetrics, MaxModeChanges,
                              current_price)

NextStamp ==
    \/ StampSleep
    \/ RunLoopMtfRefresh
    \/ CollectStamped
    \/ Filter
    \/ Correlate
    \/ ExecuteRejected
    \/ EndCycle

SpecStamp == Init /\ [][NextStamp]_vars

(***************************************************************************)
(* Cycles around the end of a cooldown: the ML model and S/R answer, the   *)
(* loop is delayed by half the ML cooldown or one second less, so that a   *)
(* cycle falls on the last blocked second and one on the boundary          *)
(***************************************************************************)
GateMaxTime == 1800
GateSteps == {strategy_cooldowns["ml"] * 30, strategy_cooldowns["ml"] * 30 - 1}
GateOutputs ==
    {outs \in [Strategies -> {NoSignal, [some |-> TRUE, signal |-> 1, confidence |-> 80]}] :
        \A s \in Strategies \ {"ml", "sr"} : ~outs[s].some}

GateSleep == \E d \in GateSteps : SleepFor(d, GateMaxTime)
CollectGate == \E outs \in GateOutputs :
                   CollectSignals(outs, "neutral", NoTradesMetrics, MaxModeChanges)

NextGate ==
    \/ GateSleep
    \/ RunLoopMtfRefresh
    \/ CollectGate
    \/ Filter
    \/ Correlate
    \/ Execute
    \/ EndCycle

SpecGate == Init /\ [][NextGate]_vars

(***************************************************************************)
(* Cycles in which the pipeline is also handed a signal of a source that   *)
(* is not configured, next to those of the ML model and S/R                *)
(***************************************************************************)
ForeignMaxTime == 1800
ForeignSleep == SleepUntil(ForeignMaxTime)
HandForeign == \E name \in ForeignSources, direction \in {1, -1} :
                   HandForeignSignal(name, direction)

NextForeign ==
    \/ ForeignSleep
    \/ RunLoopMtfRefresh
    \/ GuiStrategyConfig
    \/ CollectGate
    \/ HandForeign
    \/ Filter
    \/ Correlate
    \/ Execute
    \/ EndCycle

SpecForeign == Init /\ [][NextForeign]_vars

(***************************************************************************)
(* The GUI thread next to the bot thread: the operator's messages are put  *)
(* at any point of the bot's loop, which polls the queue once an iteration *)
(***************************************************************************)
GuiMaxTime == 60
MaxQueue == 2
GuiMessages ==
    {ConfigMessage(DEFAULT_LOT_SIZE, 1), ConfigMessage(volume_min, DEFAULT_MAX_POSITIONS),
     StrategyConfigMessage([enabled |-> [s \in Strategies |-> s # "sr"],
                            mtf_enabled |-> FALSE]),
     OtherMessage("reset_trading")}

GuiIterationSleep == IterationSleep(PollSeconds, GuiMaxTime)
GuiThreadPut == \E msg \in GuiMessages : GuiPut(msg, MaxQueue)

NextGui ==
    \/ GuiIterationSleep
    \/ PollGuiQueue
    \/ GuiThreadPut
    \/ UpdateGui
    \/ RunLoopMtfRefresh
    \/ CollectGate
    \/ Filter
    \/ Correlate
    \/ ExecuteRejected
    \/ EndCycle

SpecGui == Init /\ [][NextGui]_vars

(***************************************************************************)
(* send_order called again and again, the symbol allowing one, two or      *)
(* three filling modes, the broker answering each request as it likes;     *)
(* the bot thread keeps running, so a started loop takes its next step     *)
(***************************************************************************)
FillingTypes == {0, 2, 5, 7}
Retcodes == {"DONE", "10027", "10030", "other", "none"}

SendCall == \E tick_ok \in BOOLEAN, is_valid \in BOOLEAN, filling_type \in FillingTypes :
                SendOrderCall(tick_ok, is_valid, filling_type)
SendAttempt == \E tick_ok \in BOOLEAN : SendOrderAttempt(tick_ok)
SendRequest == \E retcode \in Retcodes : SendOrderRequest(retcode)

NextSend ==
    \/ SendCall
    \/ SendAttempt
    \/ SendRequest

SpecSend ==
    Init /\ [][NextSend]_vars /\ WF_vars(SendAttempt) /\ WF_vars(SendRequest)

(***************************************************************************)
(* A BUY or a SELL position watched over a sequence of price updates: the  *)
(* price stays, rises and falls by a few pips around the trailing and      *)
(* breakeven thresholds                                                    *)
(***************************************************************************)
OpenPrice == 1000
ProfitOffsets == {0, 30, 50, 60, 200}
StopsLevels == {0, 300}

TrailOpen == \E type \in {0, 1} : PositionOpened(type, OpenPrice, ProviderSlPips["ml"])
TrailProcess ==
    \E off \in ProfitOffsets, checks_ok \in BOOLEAN, stops_level \in StopsLevels,
       done \in BOOLEAN :
        ProcessPosition(IF trail.type = 0 THEN OpenPrice + off ELSE OpenPrice - off,
                        checks_ok, stops_level, done)

NextTrail ==
    \/ TrailOpen
    \/ TrailProcess
    \/ PositionClosed

SpecTrail == Init /\ [][NextTrail]_vars

(***************************************************************************)
(* Properties                                                              *)
(***************************************************************************)

\* C2 (Unanimity): a consensus is approved iff there is at least one active
\* timeframe and the biases analysed for all active timeframes are the same
\* non-neutral bias; the direction is that bias (buy for bullish, sell for
\* bearish) and no direction is given when not approved.  Only the active
\* timeframes enter the verdict.
Unanimity ==
    mtf_analysis.called =>
        LET a == mtf_analysis.active_timeframes
            r == mtf_analysis.timeframes_detail
        IN  /\ mtf_analysis.approved <=>
                    (a # {} /\ \E b \in {"bullish", "bearish"} :
                                  \A tf \in a : r[tf].bias = b)
            /\ mtf_analysis.approved =>
                    /\ mtf_analysis.direction \in {"buy", "sell"}
                    /\ \A tf \in a : r[tf].bias =
                          (IF mtf_analysis.direction = "buy" THEN "bullish" ELSE "bearish")
            /\ ~mtf_analysis.approved => mtf_analysis.direction = "none"
            /\ DOMAIN r = a

\* C2 witness: H1 and H4 active and both bullish, D1 inactive: approved, buy
UnanimityWitness ==
    /\ mtf_analysis.called
    /\ mtf_analysis.active_timeframes = {"H1", "H4"}
    /\ ~timeframes["D1"].active
    /\ mtf_analysis.approved
    /\ mtf_analysis.direction = "buy"

\* C3 (Fail-closed data): when the data source returned no data for some
\* active timeframe during a consensus, the consensus is not approved, whatever
\* the other timeframes say and whatever bias that timeframe had stored.
FailClosedData ==
    mtf_analysis.called =>
        ((\E tf \in mtf_analysis.active_timeframes :
              mtf_analysis.timeframes_detail[tf].kind = "error")
         => ~mtf_analysis.approved)

\* C3 witness: a timeframe whose stored bias is bullish got no data while
\* another active timeframe was analysed bullish
FailClosedWitness ==
    /\ mtf_analysis.called
    /\ \E tf, other \in mtf_analysis.active_timeframes :
          /\ tf # other
          /\ mtf_analysis.timeframes_detail[tf].kind = "error"
          /\ timeframes[tf].bias = "bullish"
          /\ timeframes[tf].last_update # NoTime
          /\ mtf_analysis.timeframes_detail[other].bias = "bullish"
    /\ ~mtf_analysis.approved


(***************************************************************************)
(* Properties of the pipeline, under Spec                                  *)
(***************************************************************************)
\* the strategies of the signals of a list
StrategiesOf(sigs) == {sigs[i].strategy : i \in 1..Len(sigs)}

\* the window of strategy s has not elapsed at the current time
InCooldown(s) ==
    /\ last_operation_time[s] # NoTime
    /\ now - last_operation_time[s] < strategy_cooldowns[s] * 60

\* no finalist of filter_and_prioritize comes from a strategy in its window
CooldownDrops ==
    pc = "filtered" => \A s \in StrategiesOf(final_signals) : ~InCooldown(s)

\* two registrations of one strategy are at least its cooldown apart
CooldownSeparated ==
    \A s \in Strategies :
        (last_operation_time[s] # NoTime /\ last_operation_time'[s] # last_operation_time[s])
            => last_operation_time'[s] - last_operation_time[s] >= strategy_cooldowns[s] * 60

\* C1: cooldown monotonicity. Over any sequence of polling cycles, two
\* accepted executions of a source are separated by at least that source's
\* cooldown, and a signal of a source that arrives before the window has
\* elapsed is dropped by filter_and_prioritize whatever its confidence.
CooldownMonotonicity == [][CooldownSeparated]_vars /\ []CooldownDrops

\* a fresh signal of a strategy that executed earlier arrives inside the
\* window and is not among the finalists
CooldownWitness ==
    /\ pc = "filtered"
    /\ \E i \in 1..Len(all_signals) :
          /\ InCooldown(all_signals[i].strategy)
          /\ ~is_signal_expired(all_signals[i], now)
          /\ all_signals[i].confidence >= 80
          /\ all_signals[i].strategy \notin StrategiesOf(final_signals)

\* the direction the verdict of this cycle approves for a signal
VerdictAllows(sig) ==
    /\ mtf_analysis.called
    /\ mtf_analysis.approved
    /\ \/ mtf_analysis.direction = "buy" /\ sig.signal = 1
       \/ mtf_analysis.direction = "sell" /\ sig.signal = -1

\* C4 as stated: in every cycle and every configuration of the aggregator,
\* set_mtf_enabled(False) included, no signal survives filter_and_prioritize
\* unless the verdict of the cycle is approved and has the signal's direction.
TrendAlignmentAlways ==
    pc = "filtered" =>
        \A i \in 1..Len(final_signals) : VerdictAllows(final_signals[i])

\* C4: trend alignment gate. While the trend filter is enabled, if the
\* consensus verdict of the cycle is not approved no signal survives
\* filter_and_prioritize, and if it is approved only the signals whose
\* direction equals the approved direction survive.
TrendAlignmentGate ==
    (pc = "filtered" /\ mtf_enabled) =>
        \A i \in 1..Len(final_signals) : VerdictAllows(final_signals[i])

\* the filter is enabled, a signal against the approved direction was
\* collected with one along it, and only the latter is a finalist
TrendAlignmentWitness ==
    /\ pc = "filtered"
    /\ mtf_enabled
    /\ mtf_analysis.approved
    /\ final_signals # <<>>
    /\ \E i \in 1..Len(all_signals) :
          /\ ~VerdictAllows(all_signals[i])
          /\ ~is_signal_expired(all_signals[i], now)
          /\ ~InCooldown(all_signals[i].strategy)

\* the gates a signal has passed, in order, when its order is sent
AllGates ==
    <<"collected", "fresh", "cooldown", "mtf", "limit", "correlation", "revalidated">>
GatesWithoutMtf ==
    <<"collected", "fresh", "cooldown", "limit", "correlation", "revalidated">>

\* the cooldown of a strategy is registered only in the step that placed an
\* order of that strategy
RegistrationAfterOrder ==
    \A s \in Strategies :
        last_operation_time'[s] # last_operation_time[s]
            => /\ last_exec'.sent
               /\ last_exec'.done
               /\ last_exec'.strategy = s
               /\ last_operation_time'[s] = now

\* C5 as stated: no order is placed for a signal unless it went, in this
\* order, through collection, the freshness filter, the cooldown gate, the
\* trend-alignment gate, the position limiter, the correlation guard and
\* revalidation.
GateOrderingAlways == last_exec.sent => last_exec.gates = AllGates

GateTrace ==
    last_exec.sent =>
        /\ pc = "executing"
        /\ now - current_time <= signal_timeout_minutes * 60
        /\ last_exec.gates = IF mtf_enabled THEN AllGates ELSE GatesWithoutMtf

\* C5: gate ordering. No order is placed for a signal unless, earlier in the
\* same cycle and in this order, it was collected, passed the freshness
\* filter, the cooldown gate, the trend-alignment gate (when the trend filter
\* is enabled), the position limiter and the correlation guard, and was then
\* confirmed by revalidation; the cooldown is registered only after the order.
GateOrdering == []GateTrace /\ [][RegistrationAfterOrder]_vars

\* an order was placed and registered for a signal that went through all gates
GateOrderingWitness ==
    /\ last_exec.done
    /\ last_exec.registered
    /\ last_exec.gates = AllGates
    /\ last_operation_time[last_exec.strategy] = now

\* the candidates of FILTRO 4: the signals that passed the first three
\* filters and whose strategy is below its own cap
SlotCandidates ==
    LET s3 == GateMtf(AfterCooldown(AfterExpiry(all_signals, now), last_operation_time, now),
                      mtf_enabled, mtf_analysis)
    IN  SelectSeq(s3, LAMBDA x : active_count(active_trades, x.strategy)
                                     < max_allowed(x.strategy))

\* C6: priority preference under truncation. Whenever filter_and_prioritize
\* excludes a candidate only because the remaining global slots are
\* exhausted, no finalist it keeps ranks worse than the excluded candidate in
\* the order (priority ascending, confidence descending).
PriorityPreference ==
    pc = "filtered" =>
        \A i \in 1..Len(SlotCandidates) :
            SlotCandidates[i].strategy \notin StrategiesOf(final_signals)
                => \A j \in 1..Len(final_signals) :
                       ~Before(SlotCandidates[i], final_signals[j])

\* C7 as stated: in every cycle open positions + number of finalists <= cap.
GlobalCapSum ==
    pc = "filtered" => cycle_positions + Len(final_signals) <= max_total_positions

\* C7: global cap. In every cycle the number of finalists returned by
\* filter_and_prioritize is at most the number of free slots,
\* max(0, cap - open positions); the finalist list is empty whenever the
\* number of open positions is >= the global cap.
GlobalCap ==
    pc = "filtered" =>
        /\ Len(final_signals) <= Max(0, max_total_positions - cycle_positions)
        /\ cycle_positions >= max_total_positions => final_signals = <<>>

\* the cap is reached and signals that passed every other filter are dropped
GlobalCapWitness ==
    /\ pc = "filtered"
    /\ cycle_positions >= max_total_positions
    /\ SlotCandidates # <<>>
    /\ final_signals = <<>>

\* C8: per-source cap. After any sequence of cycles, executions and closes,
\* the number of open positions attributed to a source never exceeds
\* MAX_POSITIONS_PER_STRATEGY of that source, a signal being a finalist only
\* when its source's open count is below the cap.
PerSourceCap ==
    /\ \A s \in Strategies :
          Cardinality({k \in DOMAIN active_trades : active_trades[k].strategy = s})
              <= MAX_POSITIONS_PER_STRATEGY[s]
    /\ pc = "filtered" =>
          \A s \in StrategiesOf(final_signals) :
              Cardinality({k \in DOMAIN active_trades : active_trades[k].strategy = s})
                  < MAX_POSITIONS_PER_STRATEGY[s]

\* a source at its cap has a signal that passed the other filters, slots are
\* free, and the signal is not a finalist
PerSourceCapWitness ==
    /\ pc = "filtered"
    /\ cycle_positions < max_total_positions
    /\ LET s3 == GateMtf(AfterCooldown(AfterExpiry(all_signals, now),
                                       last_operation_time, now),
                         mtf_enabled, mtf_analysis)
       IN  \E i \in 1..Len(s3) :
              /\ active_count(active_trades, s3[i].strategy)
                     = MAX_POSITIONS_PER_STRATEGY[s3[i].strategy]
              /\ s3[i].strategy \notin StrategiesOf(final_signals)

\* C9: revalidation rejection. For every source, revalidate_signal never
\* confirms when the provider, queried again, reports no signal or a signal
\* of the opposite direction, and no order is sent for that signal.
RevalidationRejection ==
    (/\ last_exec.called
     /\ \/ ~last_exec.requery.some
        \/ last_exec.requery.signal # last_exec.signal)
        => ~last_exec.valid /\ ~last_exec.sent /\ ~last_exec.done

\* a finalist whose provider now reports the opposite direction is rejected
RevalidationRejectionWitness ==
    /\ last_exec.called
    /\ last_exec.requery.some
    /\ last_exec.requery.signal = -last_exec.signal
    /\ ~last_exec.sent

ProviderDeterminism ==
    (last_exec.called /\ last_exec.same_snapshot) => last_exec.valid

(***************************************************************************)
(* C12  Expiry: filter_and_prioritize drops a signal whenever it has no    *)
(* timestamp or now - timestamp exceeds signal_timeout_minutes, the same   *)
(* for every source, whatever the later gates would say; a signal whose    *)
(* age is at most the timeout (exactly the timeout included) is not        *)
(* dropped for its age: it is a finalist when the cooldown, the trend      *)
(* verdict (if the trend gate is on) and the limits admit it.              *)
(***************************************************************************)
IsFinalist(sig, finals) ==
    \E i \in 1..Len(finals) :
        /\ finals[i].strategy = sig.strategy
        /\ finals[i].signal = sig.signal
        /\ finals[i].timestamp = sig.timestamp

TooOld(sig) ==
    \/ sig.timestamp = NoTime
    \/ now - sig.timestamp >= signal_timeout_minutes * 60 + 1

ExpiryRule ==
    [][(pc = "collected" /\ pc' = "filtered") =>
         \A j \in 1..Len(all_signals) :
            LET sig == all_signals[j]
            IN  /\ TooOld(sig) => ~IsFinalist(sig, final_signals')
                /\ (/\ ~TooOld(sig)
                    /\ can_operate(last_operation_time, sig.strategy, now)
                    /\ ~mtf_enabled \/ VerdictAllows(sig)'
                    /\ Len(all_signals) = 1
                    /\ Cardinality(positions) = 0)
                   => IsFinalist(sig, final_signals')]_vars

\* a signal aged exactly the timeout is a finalist
ExpiryWitness ==
    /\ pc = "filtered"
    /\ Len(all_signals) = 1
    /\ now - all_signals[1].timestamp = signal_timeout_minutes * 60
    /\ IsFinalist(all_signals[1], final_signals)

(***************************************************************************)
(* C13  Idempotent registration: a further register_operation call for a   *)
(* strategy never shortens its cooldown window: every time from now on at  *)
(* which the strategy was blocked before the call is still blocked after   *)
(* it, and the stamp never moves back.                                     *)
(***************************************************************************)
\* the minutes of the longest cooldown window after the call
WindowMinutes == 0..60

RegistrationNeverShortens ==
    [][\A s \in Strategies :
         /\ last_operation_time'[s] >= last_operation_time[s]
         /\ \A m \in WindowMinutes :
               ~can_operate(last_operation_time, s, now' + 60 * m)
                  => ~can_operate(last_operation_time', s, now' + 60 * m)]_vars

\* one strategy registered twice, the second time inside its window
RegistrationWitness ==
    /\ total_signals_executed = 2
    /\ last_operation_time["ml"] = now
    /\ now > 0
    /\ \A s \in Strategies \ {"ml"} : last_operation_time[s] = NoTime

(***************************************************************************)
(* C14  Exactly-once accounting, as stated: after any sequence of cycles   *)
(* total_signals_executed equals the number of confirmed executions (the   *)
(* orders the broker answered DONE, one ticket each).                      *)
(* open_trade_from_signal counts every execution twice.                    *)
(***************************************************************************)
ExactlyOnceAccounting == total_signals_executed = next_ticket - 1

(***************************************************************************)
(* C15  Registration only on confirmed success: the cooldown record and    *)
(* total_signals_executed change only in an open_trade_from_signal call    *)
(* whose order the broker confirmed, and then only the record of the       *)
(* signal's source; when revalidation rejects the signal or the order is   *)
(* not confirmed, both are left unchanged.                                 *)
(***************************************************************************)
RegistrationOnlyOnSuccess ==
    [][(\/ last_operation_time' # last_operation_time
        \/ total_signals_executed' # total_signals_executed)
       => /\ pc = "executing" /\ final_signals # <<>>
          /\ final_signals' = Tail(final_signals)
          /\ last_exec'.called /\ last_exec'.valid /\ last_exec'.done
          /\ positions' # positions
          /\ \A s \in Strategies \ {Head(final_signals).strategy} :
                last_operation_time'[s] = last_operation_time[s]]_vars

\* an order was sent and not confirmed, nothing was ever registered
RegistrationWitnessUnconfirmed ==
    /\ last_exec.called /\ last_exec.sent /\ ~last_exec.done
    /\ last_operation_time = InitLastOperationTime
    /\ total_signals_executed = 0

(***************************************************************************)
(* C16  Registrar writes last, as stated: there is no reachable state in   *)
(* which a source's cooldown is stamped for an execution whose position    *)
(* is not recorded in the active-trades ledger.                            *)
(* mark_signal_as_executed runs before memory.add_trade_entry and the      *)
(* ledger write, so an exception between them leaves the stamp alone.      *)
(***************************************************************************)
RegistrarWritesLast ==
    (last_exec.called /\ last_exec.registered)
        => last_exec.recorded

(***************************************************************************)
(* C17  Single write path: filter_and_prioritize, with the can_operate and *)
(* block_operation calls it makes, leaves last_operation_time unchanged;   *)
(* the record changes only when open_trade_from_signal registers an        *)
(* execution, and then only the entry of the executed signal's source,     *)
(* which becomes the time of the call.                                     *)
(***************************************************************************)
SingleWritePath ==
    [][/\ (pc = "collected" /\ pc' = "filtered")
            => last_operation_time' = last_operation_time
       /\ last_operation_time' # last_operation_time
            => /\ pc = "executing" /\ final_signals # <<>>
               /\ last_exec'.registered
               /\ last_operation_time' =
                     [last_operation_time EXCEPT ![Head(final_signals).strategy] = now]]_vars

\* a filter pass that let one signal through and blocked another by cooldown
SingleWritePathWitness ==
    /\ pc = "filtered"
    /\ final_signals # <<>>
    /\ \E i \in 1..Len(all_signals) :
          /\ ~is_signal_expired(all_signals[i], now)
          /\ ~can_operate(last_operation_time, all_signals[i].strategy, now)

(***************************************************************************)
(* C18  Defensive floor: after any sequence of update_config calls of the  *)
(* equity monitor, the lot multiplier get_lot_multiplier returns in        *)
(* defensive mode is never below the floor of 50 percent.                  *)
(***************************************************************************)
DefensiveFloor ==
    get_lot_multiplier("defensive", defensive_lot_multiplier, aggressive_lot_multiplier)
        >= defensive_lot_floor

\* an order sent in defensive mode with the multiplier lowered to the floor
DefensiveFloorWitness ==
    /\ defensive_lot_multiplier = defensive_lot_floor
    /\ last_exec.called /\ last_exec.sent
    /\ last_exec.mode = "defensive"

DefensiveConfidenceBar ==
    \A i \in 1..Len(final_signals) :
        final_signals[i].equity_mode = "defensive"
            => final_signals[i].provider_confidence >=
                 min_confidence[final_signals[i].strategy] + defensive_confidence_boost

(***************************************************************************)
(* C21  The equity gate never fully blocks trading: should_allow_trade     *)
(* answers allow = true in every mode, for every drawdown and win rate,    *)
(* and in no mode does the equity step take a signal out of the pipeline:  *)
(* the signals it hands on have the sources and directions of the signals  *)
(* it was given.                                                           *)
(***************************************************************************)
EquityGateNeverBlocks ==
    equity_gate.called
        => /\ equity_gate.allow_trade
           /\ pc = "collected" => SourceAndDirection(all_signals) = equity_gate.offered

\* a cycle collected in defensive mode keeps its signals and is allowed
EquityGateWitness ==
    /\ pc = "collected"
    /\ equity_gate.called
    /\ current_mode = "defensive"
    /\ current_drawdown >= defensive_drawdown_threshold
    /\ Len(all_signals) = 2

(***************************************************************************)
(* C22  The mode is a pure function of the metrics: whenever the monitor   *)
(* recomputes, the mode is defensive iff the drawdown read is at or above  *)
(* the defensive threshold, otherwise aggressive iff the win rate read is  *)
(* at or above the aggressive threshold and the drawdown is below 5,       *)
(* otherwise normal; a monitor with any other previous mode computes the   *)
(* same mode from the same metrics.                                        *)
(***************************************************************************)
ModeByMetrics(drawdown, winrate, dd_threshold, wr_threshold) ==
    CASE drawdown >= dd_threshold -> "defensive"
      [] drawdown < dd_threshold /\ winrate >= wr_threshold /\ drawdown < 5 -> "aggressive"
      [] OTHER -> "normal"

\* a step in which run or send_order asked the monitor
MonitorRecomputed ==
    \/ ~equity_gate.called /\ equity_gate'.called
    \/ pc = "executing" /\ final_signals' # final_signals /\ last_exec'.sent

ModeIsPureFunction ==
    [][MonitorRecomputed
         => /\ current_mode' = ModeByMetrics(current_drawdown', current_winrate',
                                             defensive_drawdown_threshold,
                                             aggressive_winrate_threshold)
            /\ \A prev \in TradingModes :
                  Determine([Monitor EXCEPT !.current_mode = prev],
                            [drawdown_pct |-> current_drawdown',
                             winrate |-> current_winrate']).current_mode = current_mode'
    ]_vars

\* after two mode changes the monitor is in normal mode on a high win rate,
\* with the drawdown one point under the defensive threshold
ModeIsPureFunctionWitness ==
    /\ pc = "collected"
    /\ mode_changes = 2
    /\ current_mode = "normal"
    /\ current_winrate >= aggressive_winrate_threshold
    /\ current_drawdown = defensive_drawdown_threshold - 1

(***************************************************************************)
(* C23  Mode-change event: in every step the monitor's mode_changes grows  *)
(* by one exactly when the stored mode changes, and by nothing otherwise;  *)
(* the recomputations of one cycle step on the same metrics                *)
(* (should_allow_trade, get_confidence_adjustment, get_lot_multiplier)     *)
(* report a change at most once.                                           *)
(***************************************************************************)
ModeChangeReportedOnce ==
    [][mode_changes' = IF current_mode' # current_mode THEN mode_changes + 1
                       ELSE mode_changes]_vars

\* a cycle collected in a mode other than the stored one, the change counted
ModeChangeWitness ==
    /\ pc = "collected"
    /\ mode_changes = 1
    /\ current_mode = "defensive"
    /\ all_signals # <<>>

(***************************************************************************)
(* C24  Risk clustering, as the guard applies it: with at least one open   *)
(* position, check_signal_correlation rejects a finalist when two or more  *)
(* registered trades in its direction have a stop distance within          *)
(* min_sl_distance_pips of its own (it would be the third of the cluster); *)
(* a finalist with fewer than two such trades, and within the risk limit,  *)
(* is approved.                                                            *)
(***************************************************************************)
Approved(sig, sigs) == \E j \in 1..Len(sigs) : sigs[j].strategy = sig.strategy

RiskWithin(sig, trades, balance) ==
    balance > 0 => (SumSlPips(trades, DOMAIN trades) + sig.sl_pips) * 100
                       <= max_total_risk_pct * balance

AggregateRiskBound ==
    (/\ pc = "executing" /\ final_signals = <<>>
     /\ last_exec.called /\ last_exec.recorded
     /\ cycle_balance > 0)
        => SumSlPips(active_trades, DOMAIN active_trades) * 100
             <= max_total_risk_pct * cycle_balance

(***************************************************************************)
(* C26  Failure isolation, as stated: an exception raised by a signal      *)
(* provider during collection or revalidation never aborts the cycle; the  *)
(* polling loop is never left.                                             *)
(* Only the ML call is guarded in collect_all_signals; an exception of any *)
(* of the other five sources leaves collect_all_signals and run.           *)
(***************************************************************************)
FailureIsolation == pc # "stopped"

(***************************************************************************)
(* C27  Operator disable, as stated: while a source's flag is false, no    *)
(* signal of that source is collected, is a finalist or is executed; for   *)
(* each of the six sources, 'ml' included.                                 *)
(* update_strategy_config stores the 'ml' flag but passes it to nothing,   *)
(* and collect_all_signals queries the ML ensemble without a test.         *)
(***************************************************************************)
OperatorDisable ==
    \A s \in Strategies :
        ~strategies_enabled[s]
            => /\ \A i \in 1..Len(all_signals) : all_signals[i].strategy # s
               /\ \A i \in 1..Len(final_signals) : final_signals[i].strategy # s
               /\ ~(last_exec.called /\ last_exec.strategy = s)

(***************************************************************************)
(* C28  HorizonState ownership, as stated: the bias, the strength and the  *)
(* last refresh time of a horizon change only in the trend voter's own     *)
(* refresh, which the loop reaches through filter_and_prioritize; no other *)
(* step of the polling loop writes them.                                   *)
(* run itself sets last_update of the horizons to None on its 60 s and     *)
(* 300 s timers.                                                           *)
(***************************************************************************)
HorizonState(cfg) == <<cfg.bias, cfg.strength, cfg.last_update>>

HorizonOwnership ==
    [][\A tf \in TFNames :
          HorizonState(timeframes'[tf]) # HorizonState(timeframes[tf])
              => (pc = "collected" /\ pc' = "filtered")
    ]_vars

(***************************************************************************)
(* C29  Drop observability: every signal dropped as expired, in cooldown,  *)
(* misaligned with the trend verdict, correlation-blocked or               *)
(* revalidation-failed has, once the step that drops it is over, an event  *)
(* in the cycle's log that carries its source, its direction and the       *)
(* reason.                                                                 *)
(***************************************************************************)
Logged(log, sig, reason) ==
    \E e \in log :
        e.strategy = sig.strategy /\ e.signal = sig.signal /\ e.reason = reason

Fresh(sig) == ~is_signal_expired(sig, now)
Ready(sig) == can_operate(last_operation_time, sig.strategy, now)

DropObservability ==
    [][/\ (pc = "collected" /\ pc' = "filtered")
            => \A i \in 1..Len(all_signals) :
                 LET sig == all_signals[i]
                 IN  /\ ~Fresh(sig) => Logged(drop_log', sig, "expired")
                     /\ (Fresh(sig) /\ ~Ready(sig)) => Logged(drop_log', sig, "cooldown")
                     /\ (Fresh(sig) /\ Ready(sig) /\ mtf_enabled
                           /\ ~MtfAligned(sig, mtf_analysis'))
                           => Logged(drop_log', sig, "mtf")
       /\ (pc = "filtered" /\ pc' = "executing")
            => \A i \in 1..Len(final_signals) :
                 ~Approved(final_signals[i], final_signals')
                     => Logged(drop_log', final_signals[i], "correlation")
       /\ (pc = "executing" /\ final_signals' # final_signals /\ ~last_exec'.valid)
            => Logged(drop_log', Head(final_signals), "revalidation")
    ]_vars

\* a cycle in which one signal was blocked by the correlation guard and
\* another failed its revalidation
DropObservabilityWitness ==
    /\ pc = "executing"
    /\ \E e \in drop_log : e.reason = "correlation"
    /\ \E e \in drop_log : e.reason = "revalidation"

(***************************************************************************)
(* C30  Horizon cache reuse, as stated: a horizon refreshed successfully   *)
(* at time t answers every analyze_single_timeframe call made before       *)
(* t + update_interval with the cached bias and strength, whatever the     *)
(* data source would give, and a call at or after t + update_interval      *)
(* fetches; each horizon with its own interval.                            *)
(* Holds for the trend voter on its own; in the polling loop run drops     *)
(* last_update on its 60 s and 300 s timers, and the next call fetches     *)
(* before the horizon's interval is over.                                  *)
(***************************************************************************)
CacheReuse ==
    [][\A tf \in TFNames :
          LET t == timeframes[tf].last_update
          IN  (t # NoTime /\ now' >= t)
                => \A d \in FetchOutcomes :
                     LET answer == SingleResult(timeframes', tf, now', d)
                     IN  IF now' < t + update_interval[tf]
                         THEN /\ answer.kind = "cached"
                              /\ answer.bias = timeframes[tf].bias
                              /\ answer.strength = timeframes[tf].strength
                         ELSE timeframes'[tf] = timeframes[tf] => answer.kind # "cached"
    ]_vars

(***************************************************************************)
(* C31  A failed horizon fetch is not cached: when the data of a horizon   *)
(* is missing or too short, analyze_single_timeframe reports neutral with  *)
(* strength 0 and leaves the horizon's bias, strength and last_update as   *)
(* they were, so a call that follows at once fetches again.                *)
(***************************************************************************)
FailedFetchNotCached ==
    [][(mtf_analysis' # mtf_analysis /\ mtf_analysis'.called)
         => \A tf \in mtf_analysis'.active_timeframes :
              mtf_analysis'.timeframes_detail[tf].kind = "error"
                  => /\ mtf_analysis'.timeframes_detail[tf].bias = "neutral"
                     /\ mtf_analysis'.timeframes_detail[tf].strength = 0
                     /\ HorizonState(timeframes'[tf]) = HorizonState(timeframes[tf])
                     /\ \A d \in FetchOutcomes :
                           d.ok => SingleResult(timeframes', tf, now', d).kind = "fresh"
    ]_vars

\* a horizon with a stored bearish bias, its interval over, got no data
FailedFetchWitness ==
    /\ mtf_analysis.called
    /\ \E tf \in mtf_analysis.active_timeframes :
          /\ mtf_analysis.timeframes_detail[tf].kind = "error"
          /\ timeframes[tf].bias = "bearish"
          /\ timeframes[tf].last_update # NoTime
          /\ now >= timeframes[tf].last_update + update_interval[tf]

(***************************************************************************)
(* C32  update_active_timeframes(L) makes the active set exactly the known *)
(* horizons named in L and clears the cache of every horizon (no           *)
(* last_update, bias neutral, strength 0); the consensus that follows      *)
(* fetches every active horizon again and serves no cached bias.           *)
(***************************************************************************)
NamedIn(active_tf_list) ==
    {active_tf_list[i] : i \in 1..Len(active_tf_list)}

ActiveSetReplaced ==
    [][\A l \in ActiveTfChoices :
         (timeframes' = update_active_timeframes(timeframes, l)
            /\ mtf_analysis' = mtf_analysis /\ now' = now)
         => /\ get_active_timeframes(timeframes') = NamedIn(l) \cap TFNames
            /\ \A tf \in TFNames :
                  HorizonState(timeframes'[tf]) =
                      <<"neutral", 0, NoTime>>
            /\ \A data \in [get_active_timeframes(timeframes') -> FetchOutcomes] :
                  \A tf \in get_active_timeframes(timeframes') :
                     analyze_all_timeframes(timeframes', now', data)
                         .timeframes_detail[tf].kind # "cached"
    ]_vars

\* the list W1, M1 was applied after a bullish M30 bias had been computed
ActiveSetWitness ==
    /\ get_active_timeframes(timeframes) = {"W1"}
    /\ \A tf \in TFNames : timeframes[tf].last_update = NoTime
    /\ mtf_analysis.called
    /\ "M30" \in mtf_analysis.active_timeframes
    /\ mtf_analysis.timeframes_detail["M30"].kind = "fresh"
    /\ mtf_analysis.timeframes_detail["M30"].bias = "bullish"
    /\ timeframes["M30"].bias = "neutral"

(***************************************************************************)
(* C33  Uniform stamping: the list returned by one collect_all_signals     *)
(* call has at most one signal per source, in the order ml, sr, fibo,      *)
(* price_action, candlestick, liquidity, and all its signals carry the     *)
(* same generation timestamp and the same generation price.                *)
(***************************************************************************)
UniformStamping ==
    pc = "collected" =>
        \A i, j \in 1..Len(all_signals) :
            /\ i < j => ProviderIndex(all_signals[i].strategy)
                            < ProviderIndex(all_signals[j].strategy)
            /\ all_signals[i].timestamp = all_signals[j].timestamp
            /\ all_signals[i].generation_price = all_signals[j].generation_price
            /\ all_signals[i].timestamp = current_time

\* a later collection at another bid than the usual one, four sources answering
UniformStampingWitness ==
    /\ pc = "collected"
    /\ Len(all_signals) = 4
    /\ all_signals[1].strategy = "sr"
    /\ all_signals[4].strategy = "liquidity"
    /\ all_signals[1].generation_price = TickBid + 1
    /\ all_signals[1].timestamp > 0

(***************************************************************************)
(* C34  Cooldown gate decision: can_operate(s) is true iff s has no        *)
(* accepted execution on record or now - last_accepted[s] >= cooldown[s],  *)
(* the boundary value passing; the decision for s depends only on s's own  *)
(* record and cooldown.  Checked on the decision itself in every state and *)
(* on what FILTRO 2 does with the cycle's signals.                         *)
(***************************************************************************)
CooldownOver(s) ==
    \/ last_operation_time[s] = NoTime
    \/ now - last_operation_time[s] >= strategy_cooldowns[s] * 60

GateDecision ==
    [][/\ \A s \in Strategies :
            can_operate(last_operation_time, s, now) <=> CooldownOver(s)
       /\ (pc = "collected" /\ pc' = "filtered")
            => \A i \in 1..Len(all_signals) :
                 ~is_signal_expired(all_signals[i], now)
                    => ((drop_event(all_signals[i], "cooldown") \notin drop_log')
                          <=> CooldownOver(all_signals[i].strategy))
    ]_vars

\* 900 s after both sources traded, ML passes on the boundary and S/R is blocked
GateDecisionWitness ==
    /\ pc = "filtered"
    /\ last_operation_time["ml"] # NoTime
    /\ now - last_operation_time["ml"] = strategy_cooldowns["ml"] * 60
    /\ \E i \in 1..Len(all_signals) :
          /\ all_signals[i].strategy = "ml"
          /\ ~is_signal_expired(all_signals[i], now)
          /\ drop_event(all_signals[i], "cooldown") \notin drop_log
    /\ \E e \in drop_log : e.strategy = "sr" /\ e.reason = "cooldown"

(***************************************************************************)
(* C35  Unknown source: a signal whose source is not one of the configured *)
(* sources is rejected: it is never executed (no order, no position, no    *)
(* ledger entry) and changes no cooldown record, although the cooldown     *)
(* gate lets it pass and the limiter gives it the default cap.             *)
(***************************************************************************)
IsForeign(sig) == sig.strategy \notin Strategies

UnknownSourceRejected ==
    [][/\ \A k \in DOMAIN active_trades' : active_trades'[k].strategy \in Strategies
       /\ (last_exec'.called /\ last_exec'.strategy \notin Strategies)
            => /\ ~last_exec'.valid
               /\ ~last_exec'.sent
               /\ ~last_exec'.done
               /\ ~last_exec'.registered
       /\ (pc = "executing" /\ final_signals # <<>> /\ IsForeign(Head(final_signals)))
            => /\ last_operation_time' = last_operation_time
               /\ positions' = positions
               /\ active_trades' = active_trades
       /\ (pc = "collected" /\ pc' = "filtered")
            => \A i \in 1..Len(all_signals) :
                 IsForeign(all_signals[i])
                   => /\ drop_event(all_signals[i], "cooldown") \notin drop_log'
                      /\ last_operation_time' = last_operation_time
       /\ \A name \in ForeignSources :
            /\ can_operate(last_operation_time, name, now)
            /\ max_allowed(name) = DefaultMaxPerStrategy
    ]_vars

\* a foreign BUY passed the cooldown gate and the limiter and was turned down
\* at revalidation on an unchanged snapshot, after another source had traded
UnknownSourceWitness ==
    /\ last_exec.called
    /\ last_exec.strategy \in ForeignSources
    /\ last_exec.same_snapshot
    /\ ~last_exec.valid
    /\ \E i \in 1..Len(last_exec.gates) : last_exec.gates[i] = "cooldown"
    /\ \E i \in 1..Len(last_exec.gates) : last_exec.gates[i] = "limit"
    /\ active_trades # <<>>

(***************************************************************************)
(* C36  Configuration changes never interleave with a cycle: the position  *)
(* cap, the lot size, the enable flags and the trend-filter flag change    *)
(* only when the bot thread polls the queue at the top of an iteration, by *)
(* one message at most, so from collection to the end of the cycle every   *)
(* gate reads the same configuration, whatever the GUI thread puts.        *)
(***************************************************************************)
ConfigAtLoopTop ==
    [][/\ OperatorConfig' # OperatorConfig
            => /\ pc = "poll" /\ pc' = "top"
               /\ gui_queue # <<>>
               /\ OperatorConfig' = apply_message(OperatorConfig, Head(gui_queue))
       /\ (pc = "poll" /\ pc' = "top")
            => \/ gui_queue' = gui_queue
               \/ gui_queue # <<>> /\ gui_queue' = Tail(gui_queue)
       /\ pc \in {"collected", "filtered", "executing"}
            => OperatorConfig' = OperatorConfig
    ]_vars

\* a message put while the cycle was running waits in the queue: the cycle is
\* at its execution stage under the initial cap with the new cap queued
ConfigAtLoopTopWitness ==
    /\ pc = "executing"
    /\ final_signals # <<>>
    /\ gui_queue # <<>>
    /\ Head(gui_queue).type = "config"
    /\ Head(gui_queue).max_positions = 1
    /\ max_total_positions = DEFAULT_MAX_POSITIONS

(***************************************************************************)
(* C37  send_order always terminates: it sends at most max_retry_attempts  *)
(* times the number of filling modes requests, returns a success result    *)
(* only when the broker answered DONE for one of them, and returns no      *)
(* result once every attempt was rejected or the tick was unavailable.     *)
(***************************************************************************)
SendOrderRunning == order_send.phase \in {"attempt", "filling"}
SendOrderOver == order_send.phase \in {"returned", "raised"}

SendOrderBounded ==
    /\ order_send.requests <= max_retry_attempts * Len(order_send.modes)
    /\ order_send.attempt <= max_retry_attempts
    /\ (order_send.phase = "returned" /\ order_send.result = "success")
         => order_send.done_seen
    /\ (order_send.phase = "returned" /\ ~order_send.done_seen)
         => order_send.result = "none"
    /\ SendOrderRunning => ~order_send.done_seen

SendOrderTerminates ==
    /\ []SendOrderBounded
    /\ SendOrderRunning ~> SendOrderOver

\* three attempts of three requests each were all rejected
SendOrderWitness ==
    /\ order_send.phase = "returned"
    /\ order_send.result = "none"
    /\ Len(order_send.modes) = 3
    /\ order_send.requests = max_retry_attempts * 3

(***************************************************************************)
(* C38  Trailing stop monotonicity.  As stated: every modification the     *)
(* trailing check sends moves the stop strictly in the favourable          *)
(* direction, for a BUY strictly above the current stop, for a SELL        *)
(* strictly below it, also after the validator has adjusted the level.     *)
(***************************************************************************)
TrailingStrictlyBetter ==
    (trail.last_mod.sent /\ trail.last_mod.by = "trailing")
        => IF trail.type = 0
           THEN trail.last_mod.new_sl > trail.last_mod.old_sl
           ELSE trail.last_mod.new_sl < trail.last_mod.old_sl

(***************************************************************************)
(* C38 as the code has it: the level the trailing check asks for is        *)
(* strictly better than the current stop, and no modification sent for a   *)
(* position with a stop, by trailing or breakeven, is worse than the       *)
(* current stop after the validator's adjustment; it may be equal to it.   *)
(***************************************************************************)
TrailingNeverWorse ==
    trail.last_mod.sent
        => /\ trail.last_mod.old_sl > 0
           /\ IF trail.type = 0
              THEN /\ trail.last_mod.new_sl >= trail.last_mod.old_sl
                   /\ trail.last_mod.by = "trailing"
                        => trail.last_mod.requested_sl > trail.last_mod.old_sl
              ELSE /\ trail.last_mod.new_sl <= trail.last_mod.old_sl
                   /\ trail.last_mod.by = "trailing"
                        => trail.last_mod.requested_sl < trail.last_mod.old_sl
           /\ trail.last_mod.done => trail.sl = trail.last_mod.new_sl

\* a trailing request of a BUY was moved by the validator, sent and accepted,
\* and raised the stop
TrailingNeverWorseWitness ==
    /\ trail.last_mod.sent
    /\ trail.last_mod.by = "trailing"
    /\ trail.last_mod.done
    /\ trail.last_mod.new_sl # trail.last_mod.requested_sl
    /\ trail.last_mod.new_sl > trail.last_mod.old_sl
    /\ trail.type = 0
    /\ trail.highest_profit > trailing_activation_pips

====
